---- MODULE Spec2Model ----
(***************************************************************************)
(* Model of the roster reconciliation core of src/core/pipeline_v2.py:     *)
(* analyze_roster_once, build_transfer_ids and build_withdraw_outputs,     *)
(* with the name helpers they call.                                        *)
(*                                                                         *)
(* Strings are sequences of Unicode code points, so concatenation,         *)
(* prefixes, case folding and lexicographic order are those of the Python  *)
(* strings.  An empty spreadsheet cell (None) is the empty sequence: every *)
(* reader of a cell in the modelled code treats None and "" alike.         *)
(***************************************************************************)
EXTENDS Integers, Sequences, FiniteSets, TLC

\* ---------------------------------------------------------------- bounds
MaxRoster == 2
MaxTransfer == 2
MaxWithdraw == 2
MaxDate == 3
MaxSuffix == 730
MaxNames == 3
MaxRaw == 3

\* ------------------------------------------------------------ characters
IsDigit(c) == c \in 48..57
IsUpper(c) == c \in 65..90
IsLower(c) == c \in 97..122
IsSpace(c) == c \in {9, 10, 11, 12, 13, 32}

\* EN_RE = [A-Za-z]
EN_RE(c) == IsUpper(c) \/ IsLower(c)

\* HANGUL_RE = [가-힣]
HANGUL_RE(c) == c \in 44032..55203

Lower(c) == IF IsUpper(c) THEN c + 32 ELSE c
Upper(c) == IF IsLower(c) THEN c - 32 ELSE c

\* str.casefold() / str.lower() on the letters the name filter lets through
CaseFold(s) == [i \in 1..Len(s) |-> Lower(s[i])]

RECURSIVE LStrip(_)
LStrip(s) == IF s # <<>> /\ IsSpace(Head(s)) THEN LStrip(Tail(s)) ELSE s

RECURSIVE RStrip(_)
RStrip(s) ==
  IF s # <<>> /\ IsSpace(s[Len(s)]) THEN RStrip(SubSeq(s, 1, Len(s) - 1)) ELSE s

\* str.strip()
Strip(s) == RStrip(LStrip(s))

IsNameChar(c) == EN_RE(c) \/ HANGUL_RE(c) \/ IsSpace(c)
NotSpace(c) == ~IsSpace(c)

\* re.sub(r"[^A-Za-z가-힣\s]", "", s)
KeepNameChars(s) == SelectSeq(s, IsNameChar)

\* re.sub(r"\s+", " ", s): every whitespace run becomes one space
RECURSIVE CollapseSpaces(_)
CollapseSpaces(s) ==
  IF s = <<>> THEN <<>>
  ELSE IF IsSpace(Head(s))
       THEN <<32>> \o CollapseSpaces(LStrip(s))
       ELSE <<Head(s)>> \o CollapseSpaces(Tail(s))

\* decimal digits of a non-negative integer: str(n)
RECURSIVE IntToStr(_)
IntToStr(n) ==
  IF n < 10 THEN <<48 + n>> ELSE IntToStr(n \div 10) \o <<48 + (n % 10)>>

\* int(s) of a non-empty run of ASCII digits
RECURSIVE DigitsToInt(_)
DigitsToInt(s) ==
  IF s = <<>> THEN 0
  ELSE 10 * DigitsToInt(SubSeq(s, 1, Len(s) - 1)) + (s[Len(s)] - 48)

AllDigits(s) == \A i \in 1..Len(s) : IsDigit(s[i])

\* lexicographic order of two strings (Python's str <)
RECURSIVE StrLess(_, _)
StrLess(a, b) ==
  IF b = <<>> THEN FALSE
  ELSE IF a = <<>> THEN TRUE
  ELSE IF Head(a) # Head(b) THEN Head(a) < Head(b)
  ELSE StrLess(Tail(a), Tail(b))

\* ----------------------------------------------------- L1: domain utils
normalize_name(raw) ==
  LET s == Strip(CollapseSpaces(KeepNameChars(Strip(raw))))
      has_ko == \E i \in 1..Len(s) : HANGUL_RE(s[i])
      has_en == \E i \in 1..Len(s) : EN_RE(s[i])
      \* Latin-only: every space separated part is lower().capitalize()
      capParts == [i \in 1..Len(s) |->
                    IF i = 1 \/ IsSpace(s[i - 1]) THEN Upper(s[i]) ELSE Lower(s[i])]
      \* mixed: every maximal Latin run gets its first letter upper, rest lower
      fixEn == [i \in 1..Len(s) |->
                 IF ~EN_RE(s[i]) THEN s[i]
                 ELSE IF i = 1 \/ ~EN_RE(s[i - 1]) THEN Upper(s[i]) ELSE Lower(s[i])]
  IN  IF s = <<>> THEN <<>>
      ELSE IF has_ko /\ ~has_en THEN SelectSeq(s, NotSpace)
      ELSE IF has_en /\ ~has_ko THEN SelectSeq(capParts, NotSpace)
      ELSE IF has_ko /\ has_en THEN SelectSeq(fixEn, NotSpace)
      ELSE <<>>

normalize_name_key(raw) ==
  CaseFold(SelectSeq(KeepNameChars(Strip(raw)), NotSpace))

english_casefold_key(name) == CaseFold(Strip(name))

\* dedup_suffix_letters without the "n -= 1": the digits of n in base 26
RECURSIVE dedup_suffix_plain_base26(_)
dedup_suffix_plain_base26(n) ==
  IF n <= 0 THEN <<>>
  ELSE dedup_suffix_plain_base26(n \div 26) \o <<65 + (n % 26)>>

RECURSIVE dedup_suffix_letters(_)
dedup_suffix_letters(n) ==
  IF n <= 0 THEN <<>>
  ELSE dedup_suffix_letters((n - 1) \div 26) \o <<65 + ((n - 1) % 26)>>

\* CountKey comparing the names as written
CountKeyCaseSensitive(names, k, key) ==
  Cardinality({j \in 1..k : Strip(names[j]) = key})

\* occurrences of key among the first k names (k = Len: the total)
CountKey(names, k, key) ==
  Cardinality({j \in 1..k : english_casefold_key(names[j]) = key})

\* apply_suffix_for_duplicates numbering the equal names from the end of the
\* list
apply_suffix_from_the_end(names) ==
  [i \in 1..Len(names) |->
     LET key == english_casefold_key(names[i])
         total == CountKey(names, Len(names), key)
     IN  IF total <= 1 THEN names[i]
         ELSE names[i] \o dedup_suffix_letters(total + 1 - CountKey(names, i, key))]

apply_suffix_for_duplicates(names) ==
  [i \in 1..Len(names) |->
     LET key == english_casefold_key(names[i])
     IN  IF CountKey(names, Len(names), key) <= 1 THEN names[i]
         ELSE names[i] \o dedup_suffix_letters(CountKey(names, i, key))]

\* ------------------------------------- L3: roster / transfer / withdraw
\* re.match(r"^\s*(\d+)\s*-\s*(.+?)\s*$"): ok and the grade, int(group 1).
\* The section (group 2) is dropped by every caller.
RECURSIVE DigitRun(_)
DigitRun(s) ==
  IF s # <<>> /\ IsDigit(Head(s)) THEN <<Head(s)>> \o DigitRun(Tail(s)) ELSE <<>>

parse_class_str(s) ==
  LET t == LStrip(s)
      d == DigitRun(t)
      u == LStrip(SubSeq(t, Len(d) + 1, Len(t)))
      ok == d # <<>> /\ Len(u) >= 2 /\ u[1] = 45
  IN  [ok |-> ok, grade |-> IF ok THEN DigitsToInt(d) ELSE 0]

\* first 4 characters of the identifier when they are all digits
extract_id_prefix4(uid) ==
  LET s == Strip(uid)
      ok == Len(s) >= 4 /\ AllDigits(SubSeq(s, 1, 4))
  IN  [ok |-> ok, p4 |-> IF ok THEN DigitsToInt(SubSeq(s, 1, 4)) ELSE 0]

\* most_common taking, of the values that tie, the one inserted last
most_common_last_of_ties(arr) ==
  LET cnt(x) == Cardinality({j \in 1..Len(arr) : arr[j] = x})
      first(x) == CHOOSE j \in 1..Len(arr) :
                    arr[j] = x /\ \A k \in 1..(j - 1) : arr[k] # x
      best == CHOOSE j \in 1..Len(arr) :
                /\ first(arr[j]) = j
                /\ \A k \in 1..Len(arr) :
                     \/ cnt(arr[k]) < cnt(arr[j])
                     \/ cnt(arr[k]) = cnt(arr[j]) /\ first(arr[k]) <= j
  IN  arr[best]

\* Counter(arr).most_common(1)[0][0]: a value of maximal count, the one
\* inserted first among those that tie
most_common(arr) ==
  LET cnt(x) == Cardinality({j \in 1..Len(arr) : arr[j] = x})
      first(x) == CHOOSE j \in 1..Len(arr) :
                    arr[j] = x /\ \A k \in 1..(j - 1) : arr[k] # x
      best == CHOOSE j \in 1..Len(arr) :
                /\ first(arr[j]) = j
                /\ \A k \in 1..Len(arr) :
                     \/ cnt(arr[k]) < cnt(arr[j])
                     \/ cnt(arr[k]) = cnt(arr[j]) /\ first(arr[k]) >= j
  IN  arr[best]

\* what the scan loop reads off each row, lines 1195-1216: whether the row is
\* counted (class label parses, name normalises non-empty), its grade and
\* name, and its identifier prefix if it has one
\* ScanRows without the "if not nm: continue" test
RECURSIVE ScanRowsAnyName(_)
ScanRowsAnyName(rows) ==
  IF rows = <<>> THEN <<>>
  ELSE LET row == rows[Len(rows)]
           parsed == parse_class_str(row.now)
           nm == normalize_name(row.name)
           p4 == extract_id_prefix4(row.id)
           counted == parsed.ok
       IN  Append(ScanRowsAnyName(SubSeq(rows, 1, Len(rows) - 1)),
                  [counted |-> counted, g |-> parsed.grade, nm |-> nm,
                   has_p4 |-> counted /\ p4.ok, p4 |-> p4.p4])

RECURSIVE ScanRows(_)
ScanRows(rows) ==
  IF rows = <<>> THEN <<>>
  ELSE LET row == rows[Len(rows)]
           parsed == parse_class_str(row.now)
           nm == normalize_name(row.name)
           p4 == extract_id_prefix4(row.id)
           counted == parsed.ok /\ nm # <<>>
       IN  Append(ScanRows(SubSeq(rows, 1, Len(rows) - 1)),
                  [counted |-> counted, g |-> parsed.grade, nm |-> nm,
                   has_p4 |-> counted /\ p4.ok, p4 |-> p4.p4])

\* PrefixesOfGrade with one list for all grades
RECURSIVE PrefixesOfAllGrades(_, _)
PrefixesOfAllGrades(scan, g) ==
  IF scan = <<>> THEN <<>>
  ELSE LET r == scan[Len(scan)]
           before == PrefixesOfAllGrades(SubSeq(scan, 1, Len(scan) - 1), g)
       IN  IF r.has_p4 THEN Append(before, r.p4) ELSE before

\* prefixes_by_grade[g], in row order
RECURSIVE PrefixesOfGrade(_, _)
PrefixesOfGrade(scan, g) ==
  IF scan = <<>> THEN <<>>
  ELSE LET r == scan[Len(scan)]
           before == PrefixesOfGrade(SubSeq(scan, 1, Len(scan) - 1), g)
       IN  IF r.has_p4 /\ r.g = g THEN Append(before, r.p4) ELSE before

analyze_roster_once(rows, year) ==
  LET scan == ScanRows(rows)
      idx == 1..Len(scan)
      countedGrades == {scan[i].g : i \in {j \in idx : scan[j].counted}}
      prefixGrades == {scan[i].g : i \in {j \in idx : scan[j].has_p4}}
      namesAt(g) == {scan[i].nm : i \in {j \in idx : scan[j].counted /\ scan[j].g = g}}
      nameCnt(g, nm) ==
        Cardinality({j \in idx : scan[j].counted /\ scan[j].g = g /\ scan[j].nm = nm})
      prefixes_grade1 == PrefixesOfGrade(scan, 1)
      mode1 == most_common(prefixes_grade1)
      this_year == prefixes_grade1 # <<>> /\ mode1 = year
      last_year == prefixes_grade1 # <<>> /\ mode1 # year /\ mode1 = year - 1
  IN  [roster_time |-> IF this_year THEN "this_year"
                       ELSE IF last_year THEN "last_year" ELSE "unknown",
       ref_grade_shift |-> IF last_year THEN -1 ELSE 0,
       prefix_mode_by_roster_grade |->
         [g \in prefixGrades |-> most_common(PrefixesOfGrade(scan, g))],
       name_count_by_roster_grade |->
         [g \in countedGrades |-> [nm \in namesAt(g) |-> nameCnt(g, nm)]]]

\* _safe_int: (0, int(x)) when int() accepts x, else (1, str(x)).  int()
\* accepts surrounding whitespace and one sign before the digits.
_safe_int(x) ==
  LET t == Strip(x)
      signed == t # <<>> /\ Head(t) \in {43, 45}
      d == IF signed THEN Tail(t) ELSE t
      ok == d # <<>> /\ AllDigits(d)
      v == IF signed /\ Head(t) = 45 THEN 0 - DigitsToInt(d) ELSE DigitsToInt(d)
  IN  IF ok THEN [tag |-> 0, num |-> v, str |-> <<>>]
      ELSE [tag |-> 1, num |-> 0, str |-> x]

SafeIntLess(a, b) ==
  \/ a.tag < b.tag
  \/ a.tag = b.tag /\ a.tag = 0 /\ a.num < b.num
  \/ a.tag = b.tag /\ a.tag = 1 /\ StrLess(a.str, b.str)

\* SortKeyLess comparing class and number as the strings they are
SortKeyLessAsStrings(a, b) ==
  \/ a.grade < b.grade
  \/ a.grade = b.grade /\ StrLess(a.class, b.class)
  \/ a.grade = b.grade /\ a.class = b.class /\ StrLess(a.number, b.number)
  \/ a.grade = b.grade /\ a.class = b.class /\ a.number = b.number
     /\ StrLess(a.name, b.name)

\* the sort key (grade, _safe_int(class), _safe_int(number), name), compared
\* as Python compares tuples
SortKeyLess(a, b) ==
  LET ac == _safe_int(a.class)
      bc == _safe_int(b.class)
      an == _safe_int(a.number)
      bn == _safe_int(b.number)
  IN  \/ a.grade < b.grade
      \/ a.grade = b.grade /\ SafeIntLess(ac, bc)
      \/ a.grade = b.grade /\ ac = bc /\ SafeIntLess(an, bn)
      \/ a.grade = b.grade /\ ac = bc /\ an = bn /\ StrLess(a.name, b.name)

\* x goes before the first element that is strictly greater: equal keys keep
\* their input order (list.sort is stable)
RECURSIVE InsertSorted(_, _)
InsertSorted(s, x) ==
  IF s = <<>> THEN <<x>>
  ELSE IF SortKeyLess(x, Head(s)) THEN <<x>> \o s
  ELSE <<Head(s)>> \o InsertSorted(Tail(s), x)

RECURSIVE SortRows(_)
SortRows(s) ==
  IF s = <<>> THEN <<>>
  ELSE InsertSorted(SortRows(SubSeq(s, 1, Len(s) - 1)), s[Len(s)])

IsGrade1(tr) == tr.grade = 1
NotGrade1(tr) == tr.grade # 1

\* NoPrefixMode looking the prefix mode up under the candidate's own grade
NoPrefixModeUnshifted(info, tr) ==
  tr.grade \notin DOMAIN info.prefix_mode_by_roster_grade

\* prefix_mode.get(g_roster) is None
NoPrefixMode(info, tr) ==
  (tr.grade + info.ref_grade_shift) \notin DOMAIN info.prefix_mode_by_roster_grade

\* name_counts.get(g_roster, Counter()).get(nm, 0)
BaseCount(info, g_roster, nm) ==
  IF g_roster \in DOMAIN info.name_count_by_roster_grade
     /\ nm \in DOMAIN info.name_count_by_roster_grade[g_roster]
  THEN info.name_count_by_roster_grade[g_roster][nm]
  ELSE 0

\* AddSeq with one counter per name for all grades
AddSeqByNameOnly(info, other_rows, i) ==
  Cardinality({j \in 1..i :
                 /\ other_rows[j].name = other_rows[i].name
                 /\ ~NoPrefixMode(info, other_rows[j])})

\* seen_in_transfer_by_grade[g_cur][nm] after the i-th grade != 1 row: the
\* rows up to i with that grade and name that were not held
AddSeq(info, other_rows, i) ==
  Cardinality({j \in 1..i :
                 /\ other_rows[j].grade = other_rows[i].grade
                 /\ other_rows[j].name = other_rows[i].name
                 /\ ~NoPrefixMode(info, other_rows[j])})

\* uid of an assigned grade != 1 row
TransferUid(info, other_rows, i) ==
  LET tr == other_rows[i]
      g_roster == tr.grade + info.ref_grade_shift
      pref == info.prefix_mode_by_roster_grade[g_roster]
      need_suffix == BaseCount(info, g_roster, tr.name) > 0
      suffix == IF need_suffix
                THEN dedup_suffix_letters(AddSeq(info, other_rows, i))
                ELSE <<>>
  IN  IntToStr(pref) \o tr.name \o suffix

DoneRow(tr, uid) ==
  [grade |-> tr.grade, class |-> tr.class, number |-> tr.number,
   name |-> tr.name, id |-> uid]

\* {**tr, "보류사유": f"명부 학년({g_roster})에서 ID prefix 최빈값 산출 불가"}
HoldRow(tr, g_roster) ==
  [grade |-> tr.grade, class |-> tr.class, number |-> tr.number,
   name |-> tr.name,
   reason |-> [text |-> "no id prefix mode for roster grade", roster_grade |-> g_roster]]

\* TransferStep with the hold.append forgotten before the continue
TransferStepDropsHeld(acc, info, other_rows, i) ==
  LET tr == other_rows[i]
  IN  IF NoPrefixMode(info, tr)
      THEN acc
      ELSE [done |-> Append(acc.done, DoneRow(tr, TransferUid(info, other_rows, i))),
            hold |-> acc.hold]

\* one pass of the "for tr in other_rows" loop, lines 1268-1292
TransferStep(acc, info, other_rows, i) ==
  LET tr == other_rows[i]
  IN  IF NoPrefixMode(info, tr)
      THEN [done |-> acc.done,
            hold |-> Append(acc.hold, HoldRow(tr, tr.grade + info.ref_grade_shift))]
      ELSE [done |-> Append(acc.done, DoneRow(tr, TransferUid(info, other_rows, i))),
            hold |-> acc.hold]

RECURSIVE TransferLoop(_, _, _, _)
TransferLoop(acc, info, other_rows, i) ==
  IF i > Len(other_rows) THEN acc
  ELSE TransferLoop(TransferStep(acc, info, other_rows, i), info, other_rows, i + 1)

build_transfer_ids(rows, info, year) ==
  LET grade1_rows == SelectSeq(rows, IsGrade1)
      g1_names == [i \in 1..Len(grade1_rows) |-> grade1_rows[i].name]
      g1_names_sfx == apply_suffix_for_duplicates(g1_names)
      g1_done == [i \in 1..Len(grade1_rows) |->
                    DoneRow(grade1_rows[i], IntToStr(year) \o g1_names_sfx[i])]
      other_rows == SelectSeq(rows, NotGrade1)
      out == TransferLoop([done |-> g1_done, hold |-> <<>>], info, other_rows, 1)
      assigned == {i \in 1..Len(other_rows) : ~NoPrefixMode(info, other_rows[i])}
  IN  [done |-> SortRows(out.done),
       hold |-> SortRows(out.hold),
       final_prefix_by_current_grade |->
         [g \in {other_rows[i].grade : i \in assigned} |->
            info.prefix_mode_by_roster_grade[g + info.ref_grade_shift]]]

\* the locals of a call that go on from what an earlier call ended with
TransferLocalsKept(left) == left

\* lines 1253-1256: done, hold and seen_in_transfer_by_grade are created in
\* the call, whatever an earlier call ended with (left).  seen is kept as the
\* grade != 1 rows counted so far.
TransferLocals(left) == [done |-> <<>>, hold |-> <<>>, seen |-> <<>>]

\* build_transfer_ids called after an earlier call that ended with left
build_transfer_ids_again(left, rows, info, year) ==
  LET locals == TransferLocals(left)
      grade1_rows == SelectSeq(rows, IsGrade1)
      g1_names == [i \in 1..Len(grade1_rows) |-> grade1_rows[i].name]
      g1_names_sfx == apply_suffix_for_duplicates(g1_names)
      g1_done == [i \in 1..Len(grade1_rows) |->
                    DoneRow(grade1_rows[i], IntToStr(year) \o g1_names_sfx[i])]
      counted == locals.seen \o SelectSeq(rows, NotGrade1)
      out == TransferLoop([done |-> locals.done \o g1_done, hold |-> locals.hold],
                          info, counted, Len(locals.seen) + 1)
  IN  [done |-> SortRows(out.done), hold |-> SortRows(out.hold), seen |-> counted]

\* ------------------------------------------------ build_withdraw_outputs
\* re.sub(r"[A-Za-z]+$", "", name_key)
RECURSIVE _strip_name_suffix(_)
_strip_name_suffix(name_key) ==
  IF name_key # <<>> /\ EN_RE(name_key[Len(name_key)])
  THEN _strip_name_suffix(SubSeq(name_key, 1, Len(name_key) - 1))
  ELSE name_key

\* the entry _index_class_map appends under key f"{c}|{name_key}", or none
\* when the class cell is empty
_index_class_map(class_val, now_class_val, name_key, idv, name_disp) ==
  LET c == Strip(class_val)
  IN  IF c = <<>> THEN <<>>
      ELSE << [class |-> c,
               now_class |-> Strip(now_class_val),
               name_key |-> name_key,
               name_disp |-> name_disp,
               id |-> Strip(idv)] >>

\* _index_grade_map without the seen_grade_name_ids test
_index_grade_map_no_dedup(seen, class_val, now_class_val, name_key, idv, name_disp) ==
  LET c == Strip(class_val)
      parsed == parse_class_str(c)
  IN  IF c = <<>> \/ ~parsed.ok THEN <<>>
      ELSE << [class |-> c,
               now_class |-> Strip(now_class_val),
               name_key |-> name_key,
               name_disp |-> name_disp,
               id |-> Strip(idv),
               grade |-> parsed.grade] >>

\* the entry _index_grade_map appends under key f"{g}|{name_key}", given the
\* entries already there (seen_grade_name_ids), or none
_index_grade_map(seen, class_val, now_class_val, name_key, idv, name_disp) ==
  LET c == Strip(class_val)
      parsed == parse_class_str(c)
      id_str == Strip(idv)
      dup == \E k \in 1..Len(seen) :
               /\ seen[k].grade = parsed.grade
               /\ seen[k].name_key = name_key
               /\ seen[k].id = id_str
  IN  IF c = <<>> \/ ~parsed.ok \/ dup THEN <<>>
      ELSE << [class |-> c,
               now_class |-> Strip(now_class_val),
               name_key |-> name_key,
               name_disp |-> name_disp,
               id |-> id_str,
               grade |-> parsed.grade] >>

\* the index loop, lines 1422-1440.  class: roster_map as the list of its
\* entries in insertion order (per row the current-class entry, then the
\* previous-class entry); grade: roster_by_grade_name likewise, a row being
\* indexed once, under base_class_val = nowv or prevv
RECURSIVE RosterIndex(_)
RosterIndex(rows) ==
  IF rows = <<>> THEN [class |-> <<>>, grade |-> <<>>]
  ELSE LET row == rows[Len(rows)]
           before == RosterIndex(SubSeq(rows, 1, Len(rows) - 1))
           name_disp == normalize_name(row.name)
           name_key == normalize_name_key(row.name)
           base_class_val == IF row.now # <<>> THEN row.now ELSE row.prev
       IN  IF name_key = <<>> THEN before
           ELSE [class |->
                   before.class
                   \o _index_class_map(row.now, row.now, name_key, row.id, name_disp)
                   \o _index_class_map(row.prev, row.now, name_key, row.id, name_disp),
                 grade |->
                   before.grade
                   \o _index_grade_map(before.grade, base_class_val, row.now,
                                       name_key, row.id, name_disp)]

\* roster_map.get(f"{c}|{name_key}", [])
RosterMapGet(classIdx, c, name_key) ==
  LET hit(e) == e.class = c /\ e.name_key = name_key
  IN  SelectSeq(classIdx, hit)

\* GradeNameGet returning every entry of the grade
GradeNameGetAnyName(gradeIdx, g, name_key) ==
  LET hit(e) == e.grade = g
  IN  SelectSeq(gradeIdx, hit)

\* roster_by_grade_name.get(f"{g}|{name_key}", [])
GradeNameGet(gradeIdx, g, name_key) ==
  LET hit(e) == e.grade = g /\ e.name_key = name_key
  IN  SelectSeq(gradeIdx, hit)

\* the entries of grade whose stripped name key is base_name_key (their order
\* is read only when there is exactly one)
_find_suffix_candidates_for_grade(gradeIdx, grade, base_name_key) ==
  LET hit(e) == e.grade = grade /\ _strip_name_suffix(e.name_key) = base_name_key
  IN  IF grade <= 0 \/ base_name_key = <<>> THEN <<>>
      ELSE SelectSeq(gradeIdx, hit)

Matched(ms) == [held |-> FALSE, matches |-> ms, reason |-> [text |-> "", n |-> 0]]
Held(text, n) == [held |-> TRUE, matches |-> <<>>, reason |-> [text |-> text, n |-> n]]

\* FindMatches with the retry taking both grades together: one stripped-form
\* match over g and g+1 is accepted, two or more are held
FindMatchesUnion(classIdx, gradeIdx, w, w_name_key) ==
  LET g_cur == w.grade
      matches == RosterMapGet(classIdx, w.class, w_name_key)
      cand == GradeNameGet(gradeIdx, g_cur, w_name_key)
              \o GradeNameGet(gradeIdx, g_cur + 1, w_name_key)
      base_name_key == _strip_name_suffix(w_name_key)
      suffix_cand ==
        _find_suffix_candidates_for_grade(gradeIdx, g_cur, base_name_key)
        \o _find_suffix_candidates_for_grade(gradeIdx, g_cur + 1, base_name_key)
  IN  IF Len(matches) # 0 THEN Matched(matches)
      ELSE IF Len(cand) = 1 THEN Matched(cand)
      ELSE IF Len(suffix_cand) = 1 THEN Matched(suffix_cand)
      ELSE IF Len(suffix_cand) >= 2 THEN Held("duplicate-name manual confirmation", 0)
      ELSE IF Len(cand) = 0 THEN Held("auto-excluded", 0)
      ELSE Held("ambiguous grade+name match", Len(cand))

\* FindMatches with the second retry looking at g_cur again instead of
\* g_cur + 1
FindMatchesSameGradeTwice(classIdx, gradeIdx, w, w_name_key) ==
  LET g_cur == w.grade
      matches == RosterMapGet(classIdx, w.class, w_name_key)
      cand == GradeNameGet(gradeIdx, g_cur, w_name_key)
              \o GradeNameGet(gradeIdx, g_cur + 1, w_name_key)
      base_name_key == _strip_name_suffix(w_name_key)
      suffix_cand0 == _find_suffix_candidates_for_grade(gradeIdx, g_cur, base_name_key)
  IN  IF Len(matches) # 0 THEN Matched(matches)
      ELSE IF Len(cand) = 1 THEN Matched(cand)
      ELSE IF Len(suffix_cand0) = 1 THEN Matched(suffix_cand0)
      ELSE IF Len(suffix_cand0) >= 2 THEN Held("duplicate-name manual confirmation", 0)
      ELSE IF Len(cand) = 0 THEN Held("auto-excluded", 0)
      ELSE Held("ambiguous grade+name match", Len(cand))

\* the cascade of lines 1461-1533 for one candidate: the matches to go on
\* with, or the hold reason
FindMatches(classIdx, gradeIdx, w, w_name_key) ==
  LET g_cur == w.grade
      matches == RosterMapGet(classIdx, w.class, w_name_key)
      cand0 == GradeNameGet(gradeIdx, g_cur, w_name_key)
      cand1 == GradeNameGet(gradeIdx, g_cur + 1, w_name_key)
      cand == cand0 \o cand1
      base_name_key == _strip_name_suffix(w_name_key)
      suffix_cand0 == _find_suffix_candidates_for_grade(gradeIdx, g_cur, base_name_key)
      suffix_cand1 == _find_suffix_candidates_for_grade(gradeIdx, g_cur + 1, base_name_key)
  IN  IF Len(matches) # 0 THEN Matched(matches)
      ELSE IF Len(cand) = 1 THEN Matched(cand)
      ELSE IF Len(suffix_cand0) = 1 THEN Matched(suffix_cand0)
      ELSE IF Len(suffix_cand0) >= 2 THEN Held("duplicate-name manual confirmation", 0)
      ELSE IF Len(suffix_cand1) = 1 THEN Matched(suffix_cand1)
      ELSE IF Len(suffix_cand1) >= 2 THEN Held("duplicate-name manual confirmation", 0)
      ELSE IF Len(cand) = 0 THEN Held("auto-excluded", 0)
      ELSE Held("ambiguous grade+name match", Len(cand))

\* WithdrawClass preferring the class that produced the match
WithdrawClassMatchedFirst(m, w) ==
  IF m.class # <<>> THEN m.class
  ELSE IF m.now_class # <<>> THEN m.now_class
  ELSE w.class

\* now_class = m.get("now_class") or m.get("class") or w.get("class")
WithdrawClass(m, w) ==
  IF m.now_class # <<>> THEN m.now_class
  ELSE IF m.class # <<>> THEN m.class
  ELSE w.class

WithdrawHold(w, reason) ==
  [grade |-> w.grade, class |-> w.class, name |-> w.name, reason |-> reason]

\* the body of the "for w in withdraw_rows" loop: what happens to one
\* candidate (kind), the record appended, and the index entry it resolved to
WithdrawOutcome(classIdx, gradeIdx, w, eff) ==
  LET w_name_key == normalize_name_key(w.name)
      found == FindMatches(classIdx, gradeIdx, w, w_name_key)
      none == [class |-> <<>>, now_class |-> <<>>, id |-> <<>>]
  IN  IF w_name_key = <<>>
      THEN [kind |-> "hold", m |-> none,
            rec |-> WithdrawHold(w, [text |-> "empty name key", n |-> 0])]
      ELSE IF found.held
      THEN [kind |-> "hold", m |-> none, rec |-> WithdrawHold(w, found.reason)]
      ELSE IF Len(found.matches) > 1
      THEN [kind |-> "hold", m |-> none,
            rec |-> WithdrawHold(w, [text |-> "duplicate match", n |-> Len(found.matches)])]
      ELSE LET m == found.matches[1]
           IN  [kind |-> "done",
                m |-> [class |-> m.class, now_class |-> m.now_class, id |-> m.id],
                rec |-> [withdraw_class |-> WithdrawClass(m, w),
                         name |-> w.name,
                         id |-> m.id,
                         eff |-> eff]]

\* WithdrawAppend leaving auto-excluded candidates out of both lists
WithdrawAppendSkipsExcluded(acc, out) ==
  IF out.kind = "done"
  THEN [done |-> Append(acc.done, out.rec), hold |-> acc.hold,
        outcome |-> Append(acc.outcome, out)]
  ELSE IF out.rec.reason.text = "auto-excluded"
  THEN [done |-> acc.done, hold |-> acc.hold, outcome |-> Append(acc.outcome, out)]
  ELSE [done |-> acc.done, hold |-> Append(acc.hold, out.rec),
        outcome |-> Append(acc.outcome, out)]

\* done.append / hold.append of one outcome
WithdrawAppend(acc, out) ==
  IF out.kind = "done"
  THEN [done |-> Append(acc.done, out.rec), hold |-> acc.hold,
        outcome |-> Append(acc.outcome, out)]
  ELSE [done |-> acc.done, hold |-> Append(acc.hold, out.rec),
        outcome |-> Append(acc.outcome, out)]

RECURSIVE WithdrawLoop(_, _, _, _, _, _)
WithdrawLoop(acc, classIdx, gradeIdx, ws, eff, i) ==
  IF i > Len(ws) THEN acc
  ELSE WithdrawLoop(WithdrawAppend(acc, WithdrawOutcome(classIdx, gradeIdx, ws[i], eff)),
                    classIdx, gradeIdx, ws, eff, i + 1)

\* lines 1336-1339 and the done / hold lists: created in the call
WithdrawLocals(left) == [done |-> <<>>, hold |-> <<>>, outcome |-> <<>>]

\* build_withdraw_outputs called after an earlier call that ended with left
build_withdraw_outputs_again(left, rows, ws, start_date, wdate, info) ==
  LET eff == IF wdate < start_date THEN start_date ELSE wdate
      index == RosterIndex(rows)
  IN  WithdrawLoop(WithdrawLocals(left), index.class, index.grade, ws, eff, 1)

\* build_withdraw_outputs dating every record with the work date
build_withdraw_outputs_work_date(rows, ws, start_date, wdate, info) ==
  LET index == RosterIndex(rows)
  IN  WithdrawLoop([done |-> <<>>, hold |-> <<>>, outcome |-> <<>>],
                   index.class, index.grade, ws, wdate, 1)

\* roster_time = (roster_info or {}).get("roster_time", "this_year")
RosterTimeHint(info) ==
  IF info = [roster_time |-> "none"] THEN "this_year" ELSE info.roster_time

\* build_withdraw_outputs looking a candidate up one grade lower when the
\* hint says the roster is last year's
build_withdraw_outputs_by_hint(rows, ws, start_date, wdate, info) ==
  LET eff == IF wdate < start_date THEN start_date ELSE wdate
      shift == IF RosterTimeHint(info) = "last_year" THEN 1 ELSE 0
      shifted == [i \in 1..Len(ws) |-> [ws[i] EXCEPT !.grade = @ - shift]]
      index == RosterIndex(rows)
  IN  WithdrawLoop([done |-> <<>>, hold |-> <<>>, outcome |-> <<>>],
                   index.class, index.grade, shifted, eff, 1)

\* info (roster_info) is read for roster_time only, which nothing below uses
build_withdraw_outputs(rows, ws, start_date, wdate, info) ==
  LET eff == IF wdate < start_date THEN start_date ELSE wdate
      roster_time == RosterTimeHint(info)
      index == RosterIndex(rows)
  IN  WithdrawLoop([done |-> <<>>, hold |-> <<>>, outcome |-> <<>>],
                   index.class, index.grade, ws, eff, 1)

\* ------------------------------------------------------------- the state
VARIABLES
  roster,              \* the rows of the roster sheet, in sheet order
  input_year,
  transfer_rows,       \* read_transfer_rows: grade, class, number, name
  withdraw_rows,       \* read_withdraw_rows: grade, class, name
  school_start_date,
  work_date,
  roster_info,         \* analyze_roster_once's result, kept by the scan
  transfer_done_rows,
  transfer_hold_rows,
  prefix_by_grade,
  withdraw_done_rows,
  withdraw_hold_rows,
  withdraw_outcome,    \* history: per withdrawal candidate, what the loop did
  header_map,          \* the header names of row 1 of the roster sheet
  result,              \* the PipelineResult of the run, once it has ended
  arg,                 \* argument of a direct call of a name helper
  ret,                 \* what that call returned
  roster_basis_date,   \* scan_pipeline's argument, 0 for None
  modified_date,       \* the roster file's modification date, 0 when stat fails
  scan,                \* the ScanResult: ok, can_execute
  pc

vars == <<roster, input_year, transfer_rows, withdraw_rows, school_start_date,
          work_date, roster_info, transfer_done_rows, transfer_hold_rows,
          prefix_by_grade, withdraw_done_rows, withdraw_hold_rows,
          withdraw_outcome, header_map, result, arg, ret, roster_basis_date,
          modified_date, scan, pc>>

\* --------------------------------------------------------------- inputs
Ga == <<44032>>
GaA == <<44032, 65>>
GaB == <<44032, 66>>
Li == <<76, 105>>
LiA == <<76, 105, 65>>
LiB == <<76, 105, 66>>

Class11 == <<49, 45, 49, 48152>>
Class21 == <<50, 45, 49, 48152>>
Class22 == <<50, 45, 50, 48152>>
Class31 == <<51, 45, 49, 48152>>
NoClass == <<>>
BadClass == <<51, 48152>>

Row(now, prev, name, id) == [now |-> now, prev |-> prev, name |-> name, id |-> id]

SeqsUpTo(S, n) == UNION {[1..k -> S] : k \in 0..n}

InputYears == {2025}

\* roster rows of the transfer runs: grade 1 and grade 2 rows whose identifier
\* carries this year's or last year's prefix, one row whose class label does
\* not parse and one whose identifier has no year prefix
TransferRosterRows ==
  {Row(c, NoClass, nm[1], nm[2] \o nm[1]) :
     c \in {Class11, Class21},
     nm \in {<<Ga, IntToStr(2025)>>, <<Ga, IntToStr(2024)>>, <<GaA, IntToStr(2024)>>}}
  \cup {Row(BadClass, NoClass, Ga, IntToStr(2024) \o Ga),
        Row(Class21, NoClass, Ga, Ga)}

\* read_transfer_rows hands over str(cls).strip(), the number or "", and
\* normalize_name(name)
TransferCandidates ==
  {[grade |-> g, class |-> <<49>>, number |-> <<49>>, name |-> normalize_name(nm)] :
     g \in {1, 2, 3}, nm \in {Ga, GaA}}

\* roster rows of the withdrawal runs.  A row is (current class, previous
\* class): a grade 2 row, a row promoted from 2-1 to 3-1, a row whose current
\* class cell is empty, a row carrying 2-1 in both cells, a grade 3 row (for
\* the bare Hangul name the promoted row is the grade 3 row).  The
\* names are a Hangul name, bare and with the roster's same-name markers A
\* and B, and a Latin name with the markers.  Every row has an identifier of
\* its own.
WithdrawRosterRows ==
  {Row(Class21, NoClass, Ga, IntToStr(2024) \o Ga),
   Row(Class31, Class21, Ga, IntToStr(2023) \o Ga),
   Row(NoClass, Class21, Ga, IntToStr(2022) \o Ga),
   Row(Class21, Class21, Ga, IntToStr(2021) \o Ga),
   Row(Class21, NoClass, GaA, IntToStr(2024) \o GaA),
   Row(Class31, NoClass, GaA, IntToStr(2020) \o GaA),
   Row(Class21, NoClass, GaB, IntToStr(2024) \o GaB),
   Row(Class31, NoClass, GaB, IntToStr(2020) \o GaB),
   Row(Class21, NoClass, LiA, IntToStr(2024) \o LiA),
   Row(Class21, NoClass, LiB, IntToStr(2024) \o LiB)}

\* read_withdraw_rows hands over the grade, normalize_withdraw_class(cls,
\* grade) = f"{grade}-{n}반", and a non-empty normalize_name(name)
WithdrawCandidates ==
  {[grade |-> 2, class |-> Class21, name |-> normalize_name(Ga)],
   [grade |-> 2, class |-> Class22, name |-> normalize_name(Ga)],
   [grade |-> 2, class |-> Class22, name |-> normalize_name(Li)]}

NoRosterInfo == [roster_time |-> "none"]

\* need = ["현재반", "이전반", "학생이름", "아이디"]
need == {"now_class", "prev_class", "name", "id"}

NoResult == [ok |-> "none"]

NoScan == [ok |-> "none"]

InitCommon ==
  /\ header_map = need
  /\ roster_basis_date = 0
  /\ modified_date = 0
  /\ scan = NoScan
  /\ result = NoResult
  /\ arg = <<>>
  /\ ret = <<>>
  /\ roster_info = NoRosterInfo
  /\ transfer_done_rows = <<>>
  /\ transfer_hold_rows = <<>>
  /\ prefix_by_grade = <<>>
  /\ withdraw_done_rows = <<>>
  /\ withdraw_hold_rows = <<>>
  /\ withdraw_outcome = <<>>
  /\ pc = "start"

InitT ==
  /\ roster \in SeqsUpTo(TransferRosterRows, MaxRoster)
  /\ input_year \in InputYears
  /\ transfer_rows \in SeqsUpTo(TransferCandidates, MaxTransfer)
  /\ withdraw_rows = <<>>
  /\ school_start_date = 2
  /\ work_date = 1
  /\ InitCommon

InitW ==
  /\ roster \in SeqsUpTo(WithdrawRosterRows, MaxRoster)
  /\ input_year \in InputYears
  /\ transfer_rows = <<>>
  /\ withdraw_rows \in SeqsUpTo(WithdrawCandidates, MaxWithdraw)
  /\ school_start_date = 2
  /\ work_date = 1
  /\ InitCommon

\* -------------------------------------------------------------- actions
\* scan_pipeline: roster_info = analyze_roster_once(roster_ws, input_year)
AnalyzeRosterOnce ==
  /\ pc = "start"
  /\ need \subseteq header_map
  /\ roster_info' = analyze_roster_once(roster, input_year)
  /\ pc' = "scanned"
  /\ UNCHANGED <<roster, input_year, transfer_rows, withdraw_rows,
                 school_start_date, work_date, transfer_done_rows,
                 transfer_hold_rows, prefix_by_grade, withdraw_done_rows,
                 withdraw_hold_rows, withdraw_outcome, header_map, result,
                 arg, ret,
                 roster_basis_date, modified_date, scan>>

\* execute_pipeline step 3: "if transfer_rows:" build_transfer_ids
BuildTransferIds ==
  /\ pc = "scanned"
  /\ transfer_rows # <<>>
  /\ roster_info # NoRosterInfo
  /\ LET out == build_transfer_ids(transfer_rows, roster_info, input_year)
     IN  /\ transfer_done_rows' = out.done
         /\ transfer_hold_rows' = out.hold
         /\ prefix_by_grade' = out.final_prefix_by_current_grade
  /\ pc' = "transfer_done"
  /\ UNCHANGED <<roster, input_year, transfer_rows, withdraw_rows,
                 school_start_date, work_date, roster_info, withdraw_done_rows,
                 withdraw_hold_rows, withdraw_outcome, header_map, result,
                 arg, ret,
                 roster_basis_date, modified_date, scan>>

NextT == AnalyzeRosterOnce \/ BuildTransferIds

SpecT == InitT /\ [][NextT]_vars

\* execute_pipeline step 4: "if withdraw_rows:" build_withdraw_outputs, after
\* step 3 ran or was skipped for want of transfer rows
BuildWithdrawOutputs ==
  /\ \/ pc = "transfer_done"
     \/ pc = "scanned" /\ transfer_rows = <<>>
  /\ withdraw_rows # <<>>
  /\ roster_info # NoRosterInfo
  /\ need \subseteq header_map
  /\ LET out == build_withdraw_outputs(roster, withdraw_rows, school_start_date,
                                       work_date, roster_info)
     IN  /\ withdraw_done_rows' = out.done
         /\ withdraw_hold_rows' = out.hold
         /\ withdraw_outcome' = out.outcome
  /\ pc' = "withdraw_done"
  /\ UNCHANGED <<roster, input_year, transfer_rows, withdraw_rows,
                 school_start_date, work_date, roster_info, transfer_done_rows,
                 transfer_hold_rows, prefix_by_grade, header_map, result, arg,
                 ret,
                 roster_basis_date, modified_date, scan>>

NextW == AnalyzeRosterOnce \/ BuildWithdrawOutputs

SpecW == InitW /\ [][NextW]_vars

\* str(row.get("보류사유", "")).startswith("자동 제외"): of the reasons the
\* withdrawal loop writes ("성명 정규화...", "보류: ...", "중복 매칭(...)",
\* "자동 제외: ...") only the auto-excluded one starts with the tag
StartsWithAutoExclude(row) == row.reason.text = "auto-excluded"

\* AutoSkipCount counting every hold record
AutoSkipCountsAllHolds(hold_rows) == Len(hold_rows)

\* transfer_out_auto_skip = sum(1 for row in withdraw_hold_rows if ...)
AutoSkipCount(hold_rows) ==
  Cardinality({h \in 1..Len(hold_rows) : StartsWithAutoExclude(hold_rows[h])})

\* app.py: withdraw_hold_manual = max(to_hold - to_auto_skip, 0)
withdraw_hold_manual(to_hold, to_auto_skip) ==
  IF to_hold - to_auto_skip > 0 THEN to_hold - to_auto_skip ELSE 0

\* execute_pipeline steps 5-7, after step 4 ran or was skipped: the two files
\* are written and the PipelineResult carries the counts
PipelineResultOk ==
  /\ \/ pc = "withdraw_done"
     \/ pc = "transfer_done" /\ withdraw_rows = <<>>
     \/ pc = "scanned" /\ transfer_rows = <<>> /\ withdraw_rows = <<>>
  /\ result' = [ok |-> TRUE,
                outputs |-> <<"out_register_path", "out_notice_path">>,
                transfer_in_done |-> Len(transfer_done_rows),
                transfer_in_hold |-> Len(transfer_hold_rows),
                transfer_out_done |-> Len(withdraw_done_rows),
                transfer_out_hold |-> Len(withdraw_hold_rows),
                transfer_out_auto_skip |->
                  IF withdraw_rows # <<>> THEN AutoSkipCount(withdraw_hold_rows)
                  ELSE 0]
  /\ pc' = "finished"
  /\ UNCHANGED <<roster, input_year, transfer_rows, withdraw_rows,
                 school_start_date, work_date, roster_info, transfer_done_rows,
                 transfer_hold_rows, prefix_by_grade, withdraw_done_rows,
                 withdraw_hold_rows, withdraw_outcome, header_map, arg, ret,
                 roster_basis_date, modified_date, scan>>

\* a withdrawal run up to its result
NextR == AnalyzeRosterOnce \/ BuildWithdrawOutputs \/ PipelineResultOk

SpecR == InitW /\ [][NextR]_vars

\* dates are day numbers
Dates == 1..MaxDate

\* the rows of the dated withdrawal runs: one row per class cell layout
DatedRosterRows ==
  {Row(Class21, NoClass, Ga, IntToStr(2024) \o Ga),
   Row(Class31, Class22, Ga, IntToStr(2023) \o Ga)}

\* a withdrawal run on any work date and any school start date
InitD ==
  /\ roster \in SeqsUpTo(DatedRosterRows, MaxRoster)
  /\ input_year \in InputYears
  /\ transfer_rows = <<>>
  /\ withdraw_rows \in SeqsUpTo(WithdrawCandidates, MaxWithdraw)
  /\ school_start_date \in Dates
  /\ work_date \in Dates
  /\ InitCommon

SpecD == InitD /\ [][NextW]_vars

\* class and number cells of the transfer file as read_transfer_rows hands
\* them over, str(cell).strip(): numbers of one and two digits, one with a
\* leading zero, a letter, an empty number
Cell1 == <<49>>
Cell01 == <<48, 49>>
Cell2 == <<50>>
Cell10 == <<49, 48>>
CellA == <<65>>
CellNone == <<>>

\* the roster of the sorted transfer runs: a grade 1 and a grade 2 row under
\* the candidates' name
SortRosterRows ==
  {Row(Class11, NoClass, Ga, IntToStr(2025) \o Ga),
   Row(Class21, NoClass, Ga, IntToStr(2024) \o Ga)}

\* candidates of grade 1 and 2 in classes and under numbers whose order as
\* numbers and as strings differ
SortCandidates ==
  {[grade |-> g, class |-> cn[1], number |-> cn[2], name |-> normalize_name(Ga)] :
     g \in {1, 2},
     cn \in {<<Cell1, Cell2>>, <<Cell1, Cell10>>, <<Cell01, Cell2>>,
             <<Cell10, Cell1>>, <<Cell2, CellNone>>, <<CellA, Cell1>>}}
  \cup {[grade |-> g, class |-> Cell1, number |-> Cell2, name |-> normalize_name(GaA)] :
          g \in {1, 2}}

InitS ==
  /\ roster \in SeqsUpTo(SortRosterRows, MaxRoster)
  /\ input_year \in InputYears
  /\ transfer_rows \in SeqsUpTo(SortCandidates, MaxTransfer)
  /\ withdraw_rows = <<>>
  /\ school_start_date = 2
  /\ work_date = 1
  /\ InitCommon

SpecS == InitS /\ [][NextT]_vars

\* a name cell without a letter: normalize_name gives ""
NoLetters == <<49>>

AnalyzeYears == {2025, 2026}

\* the rosters of the analysis runs: grade 1 rows with the prefixes 2025,
\* 2024, 2023 and without a prefix, a grade 1 row whose name has no letter,
\* a grade 2 row and a row whose class label does not parse
AnalyzeRosterRows ==
  {Row(Class11, NoClass, Ga, IntToStr(2025) \o Ga),
   Row(Class11, NoClass, GaA, IntToStr(2024) \o GaA),
   Row(Class11, NoClass, GaB, IntToStr(2023) \o GaB),
   Row(Class11, NoClass, Ga, Ga),
   Row(Class11, NoClass, NoLetters, IntToStr(2024) \o Ga),
   Row(Class21, NoClass, Ga, IntToStr(2024) \o Ga),
   Row(BadClass, NoClass, Ga, IntToStr(2025) \o Ga)}

\* one row more than the other runs, for a mode of two against one
InitA ==
  /\ roster \in SeqsUpTo(AnalyzeRosterRows, MaxRoster + 1)
  /\ input_year \in AnalyzeYears
  /\ transfer_rows = <<>>
  /\ withdraw_rows = <<>>
  /\ school_start_date = 2
  /\ work_date = 1
  /\ InitCommon

NextA == AnalyzeRosterOnce

SpecA == InitA /\ [][NextA]_vars

\* a run over a roster whose header row holds any subset of the four
\* required headers
InitH ==
  /\ header_map \in SUBSET need
  /\ roster_basis_date = 0
  /\ modified_date = 0
  /\ scan = NoScan
  /\ roster \in SeqsUpTo(DatedRosterRows, 1)
  /\ input_year \in InputYears
  /\ transfer_rows \in SeqsUpTo({tr \in TransferCandidates : tr.grade = 2}, 1)
  /\ withdraw_rows \in SeqsUpTo(WithdrawCandidates, 1)
  /\ school_start_date = 2
  /\ work_date = 1
  /\ result = NoResult
  /\ arg = <<>>
  /\ ret = <<>>
  /\ roster_info = NoRosterInfo
  /\ transfer_done_rows = <<>>
  /\ transfer_hold_rows = <<>>
  /\ prefix_by_grade = <<>>
  /\ withdraw_done_rows = <<>>
  /\ withdraw_hold_rows = <<>>
  /\ withdraw_outcome = <<>>
  /\ pc = "start"

\* analyze_roster_once raises ValueError at the header test; scan_pipeline
\* catches it, logs a warning, sets sr.roster_info = None and goes on to
\* sr.ok = True (the second call, line 2948, raises and is caught alike)
AnalyzeRosterOnceRaises ==
  /\ pc = "start"
  /\ ~(need \subseteq header_map)
  /\ roster_info' = NoRosterInfo
  /\ ret' = <<"ValueError">>
  /\ pc' = "scanned"
  /\ UNCHANGED <<roster, input_year, transfer_rows, withdraw_rows,
                 school_start_date, work_date, transfer_done_rows,
                 transfer_hold_rows, prefix_by_grade, withdraw_done_rows,
                 withdraw_hold_rows, withdraw_outcome, header_map, result, arg,
                 roster_basis_date, modified_date, scan>>

\* build_withdraw_outputs called on that worksheet: it raises ValueError at
\* its own header test, before any record is built.  execute_pipeline never
\* gets this far with such a roster (roster_info is None by then), so this is
\* the function called by itself.
BuildWithdrawOutputsRaises ==
  /\ pc = "start"
  /\ ~(need \subseteq header_map)
  /\ ret' = <<"ValueError">>
  /\ pc' = "raised"
  /\ UNCHANGED <<roster, input_year, transfer_rows, withdraw_rows,
                 school_start_date, work_date, roster_info, transfer_done_rows,
                 transfer_hold_rows, prefix_by_grade, withdraw_done_rows,
                 withdraw_hold_rows, withdraw_outcome, header_map, result, arg,
                 roster_basis_date, modified_date, scan>>

\* a result that lists the register file although the run failed
PartialResult ==
  [ok |-> TRUE, outputs |-> <<"out_register_path">>,
   transfer_in_done |-> 0, transfer_in_hold |-> 0, transfer_out_done |-> 0,
   transfer_out_hold |-> 0, transfer_out_auto_skip |-> 0]

\* PipelineResult(ok=False, outputs=[], logs=logs), the counts at their defaults
FailedResult ==
  [ok |-> FALSE, outputs |-> <<>>,
   transfer_in_done |-> 0, transfer_in_hold |-> 0, transfer_out_done |-> 0,
   transfer_out_hold |-> 0, transfer_out_auto_skip |-> 0]

\* execute_pipeline with transfer rows (line 3186) or withdrawal rows (line
\* 3211) and no roster_info: ValueError, caught by the except at the end
ExecutePipelineRaises ==
  /\ pc = "scanned"
  /\ roster_info = NoRosterInfo
  /\ transfer_rows # <<>> \/ withdraw_rows # <<>>
  /\ result' = FailedResult
  /\ pc' = "finished"
  /\ UNCHANGED <<roster, input_year, transfer_rows, withdraw_rows,
                 school_start_date, work_date, roster_info, transfer_done_rows,
                 transfer_hold_rows, prefix_by_grade, withdraw_done_rows,
                 withdraw_hold_rows, withdraw_outcome, header_map, arg, ret,
                 roster_basis_date, modified_date, scan>>

NextH ==
  \/ AnalyzeRosterOnce
  \/ AnalyzeRosterOnceRaises
  \/ BuildTransferIds
  \/ BuildWithdrawOutputs
  \/ BuildWithdrawOutputsRaises
  \/ ExecutePipelineRaises
  \/ PipelineResultOk

SpecH == InitH /\ [][NextH]_vars

\* a roster with namesakes in grade 2, and candidates that meet them
RepeatRosterRows ==
  {Row(Class21, NoClass, Ga, IntToStr(2024) \o Ga),
   Row(Class22, NoClass, Ga, IntToStr(2024) \o Ga \o <<65>>),
   Row(Class31, Class22, Ga, IntToStr(2023) \o Ga)}

RepeatCandidates ==
  {tr \in TransferCandidates : tr.name = Ga /\ tr.grade \in {1, 2}}
  \cup {tr \in TransferCandidates : tr.name = GaA /\ tr.grade = 3}

\* a run in which each assigner is called a second time on the same inputs
InitI ==
  /\ roster \in SeqsUpTo(RepeatRosterRows, MaxRoster)
  /\ input_year \in InputYears
  /\ transfer_rows \in SeqsUpTo(RepeatCandidates, MaxTransfer)
  /\ withdraw_rows \in SeqsUpTo(WithdrawCandidates, 1)
  /\ school_start_date = 2
  /\ work_date = 1
  /\ InitCommon

BuildTransferIdsAgain ==
  /\ pc = "transfer_done"
  /\ ret' = build_transfer_ids_again(
              [done |-> transfer_done_rows, hold |-> transfer_hold_rows,
               seen |-> SelectSeq(transfer_rows, NotGrade1)],
              transfer_rows, roster_info, input_year)
  /\ pc' = "transfer_again"
  /\ UNCHANGED <<roster, input_year, transfer_rows, withdraw_rows,
                 school_start_date, work_date, roster_info, transfer_done_rows,
                 transfer_hold_rows, prefix_by_grade, withdraw_done_rows,
                 withdraw_hold_rows, withdraw_outcome, header_map, result, arg,
                 roster_basis_date, modified_date, scan>>

BuildWithdrawOutputsAgain ==
  /\ pc = "withdraw_done"
  /\ ret' = build_withdraw_outputs_again(
              [done |-> withdraw_done_rows, hold |-> withdraw_hold_rows,
               outcome |-> withdraw_outcome],
              roster, withdraw_rows, school_start_date, work_date, roster_info)
  /\ pc' = "withdraw_again"
  /\ UNCHANGED <<roster, input_year, transfer_rows, withdraw_rows,
                 school_start_date, work_date, roster_info, transfer_done_rows,
                 transfer_hold_rows, prefix_by_grade, withdraw_done_rows,
                 withdraw_hold_rows, withdraw_outcome, header_map, result, arg,
                 roster_basis_date, modified_date, scan>>

NextI ==
  \/ AnalyzeRosterOnce
  \/ BuildTransferIds
  \/ BuildTransferIdsAgain
  \/ BuildWithdrawOutputs
  \/ BuildWithdrawOutputsAgain

SpecI == InitI /\ [][NextI]_vars

\* the basis date taken to be the work date, whatever the scan was given
BasisDateIsWorkDate(user, detected, wdate) == wdate

\* basis_date = roster_basis_date or sr.roster_basis_date or work_date, where
\* sr.roster_basis_date is the file's modification date unless the caller
\* gave another date (lines 2901-2917, 2961); 0 stands for None
BasisDate(user, detected, wdate) ==
  IF user # 0 THEN user ELSE IF detected # 0 THEN detected ELSE wdate

\* lines 2961-2974: the roster_info the scan keeps is the analysis with
\* roster_time and ref_grade_shift set from the basis date, the value
\* inferred from the identifiers kept as id_roster_time
ScanRosterInfo(info, basis_date, start_date) ==
  [roster_time |-> IF basis_date < start_date THEN "last_year" ELSE "this_year",
   ref_grade_shift |-> IF basis_date < start_date THEN -1 ELSE 0,
   prefix_mode_by_roster_grade |-> info.prefix_mode_by_roster_grade,
   name_count_by_roster_grade |-> info.name_count_by_roster_grade,
   id_roster_time |-> info.roster_time]

\* scan_pipeline from the roster analysis on, for a roster with its four
\* headers: analyze_roster_once, then roster_time and ref_grade_shift set
\* from the basis date and the inferred time kept as id_roster_time
ScanPipeline ==
  /\ pc = "start"
  /\ need \subseteq header_map
  /\ roster_info' =
       ScanRosterInfo(analyze_roster_once(roster, input_year),
                      BasisDate(roster_basis_date, modified_date, work_date),
                      school_start_date)
  /\ scan' = [ok |-> TRUE, can_execute |-> TRUE]
  /\ pc' = "scanned"
  /\ UNCHANGED <<roster, input_year, transfer_rows, withdraw_rows,
                 school_start_date, work_date, transfer_done_rows,
                 transfer_hold_rows, prefix_by_grade, withdraw_done_rows,
                 withdraw_hold_rows, withdraw_outcome, header_map, result,
                 arg, ret, roster_basis_date, modified_date>>

\* grade 1 rows of this year and of last year, and a grade 2 row
BasisRosterRows ==
  {Row(Class11, NoClass, Ga, IntToStr(2025) \o Ga),
   Row(Class11, NoClass, Ga, IntToStr(2024) \o Ga),
   Row(Class21, NoClass, Ga, IntToStr(2024) \o Ga)}

\* a scan with any basis date, modification date and work date around the
\* school start date, then the transfer step
InitB ==
  /\ roster \in SeqsUpTo(BasisRosterRows, MaxRoster)
  /\ input_year \in InputYears
  /\ transfer_rows \in SeqsUpTo({tr \in TransferCandidates : tr.name = Ga /\ tr.grade # 1}, 1)
  /\ withdraw_rows = <<>>
  /\ school_start_date = 2
  /\ work_date \in Dates
  /\ roster_basis_date \in {0} \cup Dates
  /\ modified_date \in {0} \cup Dates
  /\ header_map = need
  /\ scan = NoScan
  /\ result = NoResult
  /\ arg = <<>>
  /\ ret = <<>>
  /\ roster_info = NoRosterInfo
  /\ transfer_done_rows = <<>>
  /\ transfer_hold_rows = <<>>
  /\ prefix_by_grade = <<>>
  /\ withdraw_done_rows = <<>>
  /\ withdraw_hold_rows = <<>>
  /\ withdraw_outcome = <<>>
  /\ pc = "start"

NextB == ScanPipeline \/ BuildTransferIds

SpecB == InitB /\ [][NextB]_vars

\* names as the callers hand them to apply_suffix_for_duplicates, each a
\* value of normalize_name: "Li" and "LI" (from "li" and "l i"), "Ab", "가"
SuffixNames == {Li, <<76, 73>>, <<65, 98>>, Ga}

\* a direct call of dedup_suffix_letters(n), 0 <= n <= MaxSuffix (AAA is the
\* 703rd suffix)
InitL ==
  /\ arg \in 0..MaxSuffix
  /\ roster_basis_date = 0 /\ modified_date = 0 /\ scan = NoScan
  /\ ret = <<>>
  /\ pc = "start"
  /\ roster = <<>> /\ input_year \in InputYears
  /\ transfer_rows = <<>> /\ withdraw_rows = <<>>
  /\ school_start_date = 2 /\ work_date = 1
  /\ header_map = need /\ result = NoResult /\ roster_info = NoRosterInfo
  /\ transfer_done_rows = <<>> /\ transfer_hold_rows = <<>> /\ prefix_by_grade = <<>>
  /\ withdraw_done_rows = <<>> /\ withdraw_hold_rows = <<>> /\ withdraw_outcome = <<>>

CallDedupSuffixLetters ==
  /\ pc = "start"
  /\ ret' = dedup_suffix_letters(arg)
  /\ pc' = "returned"
  /\ UNCHANGED <<roster, input_year, transfer_rows, withdraw_rows,
                 school_start_date, work_date, roster_info, transfer_done_rows,
                 transfer_hold_rows, prefix_by_grade, withdraw_done_rows,
                 withdraw_hold_rows, withdraw_outcome, header_map, result, arg,
                 roster_basis_date, modified_date, scan>>

NextL == CallDedupSuffixLetters

SpecL == InitL /\ [][NextL]_vars

\* a direct call of apply_suffix_for_duplicates(names)
InitN ==
  /\ arg \in SeqsUpTo(SuffixNames, MaxNames)
  /\ roster_basis_date = 0 /\ modified_date = 0 /\ scan = NoScan
  /\ ret = <<>>
  /\ pc = "start"
  /\ roster = <<>> /\ input_year \in InputYears
  /\ transfer_rows = <<>> /\ withdraw_rows = <<>>
  /\ school_start_date = 2 /\ work_date = 1
  /\ header_map = need /\ result = NoResult /\ roster_info = NoRosterInfo
  /\ transfer_done_rows = <<>> /\ transfer_hold_rows = <<>> /\ prefix_by_grade = <<>>
  /\ withdraw_done_rows = <<>> /\ withdraw_hold_rows = <<>> /\ withdraw_outcome = <<>>

CallApplySuffixForDuplicates ==
  /\ pc = "start"
  /\ ret' = apply_suffix_for_duplicates(arg)
  /\ pc' = "returned"
  /\ UNCHANGED <<roster, input_year, transfer_rows, withdraw_rows,
                 school_start_date, work_date, roster_info, transfer_done_rows,
                 transfer_hold_rows, prefix_by_grade, withdraw_done_rows,
                 withdraw_hold_rows, withdraw_outcome, header_map, result, arg,
                 roster_basis_date, modified_date, scan>>

NextN == CallApplySuffixForDuplicates

SpecN == InitN /\ [][NextN]_vars

\* the values build_withdraw_outputs can be given as roster_info: None, or a
\* dictionary whose roster_time is one of the three values of the scan
RosterInfoHints ==
  {NoRosterInfo} \cup
  {[roster_time |-> t] : t \in {"this_year", "last_year", "unknown"}}

HintRosterRows ==
  {Row(Class21, NoClass, Ga, IntToStr(2024) \o Ga),
   Row(Class31, Class21, Ga, IntToStr(2023) \o Ga),
   Row(Class21, NoClass, GaA, IntToStr(2024) \o GaA),
   Row(Class31, NoClass, GaB, IntToStr(2020) \o GaB)}

\* a direct call of build_withdraw_outputs with any roster_info, followed by
\* a call on the same roster, candidates and dates with another roster_info
InitO ==
  /\ roster \in SeqsUpTo(HintRosterRows, MaxRoster)
  /\ input_year \in InputYears
  /\ transfer_rows = <<>>
  /\ withdraw_rows \in SeqsUpTo(WithdrawCandidates, MaxWithdraw)
  /\ school_start_date = 2
  /\ work_date = 1
  /\ roster_info \in RosterInfoHints
  /\ roster_basis_date = 0 /\ modified_date = 0 /\ scan = NoScan
  /\ header_map = need /\ result = NoResult
  /\ arg = <<>> /\ ret = <<>>
  /\ pc = "start"
  /\ transfer_done_rows = <<>> /\ transfer_hold_rows = <<>> /\ prefix_by_grade = <<>>
  /\ withdraw_done_rows = <<>> /\ withdraw_hold_rows = <<>> /\ withdraw_outcome = <<>>

BuildWithdrawOutputsHinted ==
  /\ pc = "start"
  /\ need \subseteq header_map
  /\ LET out == build_withdraw_outputs(roster, withdraw_rows, school_start_date,
                                       work_date, roster_info)
     IN  /\ withdraw_done_rows' = out.done
         /\ withdraw_hold_rows' = out.hold
         /\ withdraw_outcome' = out.outcome
  /\ pc' = "withdraw_done"
  /\ UNCHANGED <<roster, input_year, transfer_rows, withdraw_rows,
                 school_start_date, work_date, roster_info, transfer_done_rows,
                 transfer_hold_rows, prefix_by_grade, header_map, result, arg,
                 ret, roster_basis_date, modified_date, scan>>

BuildWithdrawOutputsOtherHint ==
  /\ pc = "withdraw_done"
  /\ \E info \in RosterInfoHints :
       /\ arg' = info
       /\ ret' = build_withdraw_outputs(roster, withdraw_rows, school_start_date,
                                        work_date, info)
  /\ pc' = "hint_compared"
  /\ UNCHANGED <<roster, input_year, transfer_rows, withdraw_rows,
                 school_start_date, work_date, roster_info, transfer_done_rows,
                 transfer_hold_rows, prefix_by_grade, withdraw_done_rows,
                 withdraw_hold_rows, withdraw_outcome, header_map, result,
                 roster_basis_date, modified_date, scan>>

NextO == BuildWithdrawOutputsHinted \/ BuildWithdrawOutputsOtherHint

SpecO == InitO /\ [][NextO]_vars

\* run_pipeline going on to execute_pipeline whenever the scan returned ok
CanExecuteOkOnly(s) == s.ok

\* run_pipeline, lines 3368-3375: neither "if not scan.ok" nor
\* "if not scan.can_execute" returned
CanExecute(s) == s.ok /\ s.can_execute

\* school_name as run_pipeline is given it: empty, blank, or a name
SchoolNames == {<<>>, <<32>>, Ga}

\* a run of run_pipeline from its call to its PipelineResult
InitP ==
  /\ arg \in SchoolNames
  /\ header_map \in {need, need \ {"id"}}
  /\ roster \in SeqsUpTo(DatedRosterRows, 1)
  /\ input_year \in InputYears
  /\ transfer_rows \in SeqsUpTo({tr \in TransferCandidates : tr.grade = 2}, 1)
  /\ withdraw_rows \in SeqsUpTo(WithdrawCandidates, 1)
  /\ school_start_date = 2
  /\ work_date = 1
  /\ roster_basis_date = 0 /\ modified_date \in {1, 2}
  /\ scan = NoScan
  /\ result = NoResult
  /\ ret = <<>>
  /\ roster_info = NoRosterInfo
  /\ transfer_done_rows = <<>> /\ transfer_hold_rows = <<>> /\ prefix_by_grade = <<>>
  /\ withdraw_done_rows = <<>> /\ withdraw_hold_rows = <<>> /\ withdraw_outcome = <<>>
  /\ pc = "start"

\* school_name = (school_name or "").strip(); if not school_name: return
\* PipelineResult(ok=False, outputs=[], logs=logs)
RunPipelineNoSchoolName ==
  /\ pc = "start"
  /\ Strip(arg) = <<>>
  /\ result' = FailedResult
  /\ pc' = "finished"
  /\ UNCHANGED <<roster, input_year, transfer_rows, withdraw_rows,
                 school_start_date, work_date, roster_info, transfer_done_rows,
                 transfer_hold_rows, prefix_by_grade, withdraw_done_rows,
                 withdraw_hold_rows, withdraw_outcome, header_map, arg, ret,
                 roster_basis_date, modified_date, scan>>

\* scan_pipeline raises before the roster is analysed (no school folder, no
\* input file, no template, no roster file): the except sets sr.ok = False,
\* can_execute and roster_info keep their defaults
ScanPipelineRaises ==
  /\ pc = "start"
  /\ Strip(arg) # <<>>
  /\ scan' = [ok |-> FALSE, can_execute |-> FALSE]
  /\ pc' = "scan_returned"
  /\ UNCHANGED <<roster, input_year, transfer_rows, withdraw_rows,
                 school_start_date, work_date, roster_info, transfer_done_rows,
                 transfer_hold_rows, prefix_by_grade, withdraw_done_rows,
                 withdraw_hold_rows, withdraw_outcome, header_map, result, arg,
                 ret, roster_basis_date, modified_date>>

\* scan_pipeline reaches sr.ok = True.  need_roster is whether a transfer or
\* withdrawal file was found (a file may hold no row); the roster is analysed
\* only then, and roster_info stays None when the analysis raises;
\* can_execute is FALSE when a field is missing
ScanPipelineReturns ==
  /\ pc = "start"
  /\ Strip(arg) # <<>>
  /\ \E need_roster \in BOOLEAN, can \in BOOLEAN :
       /\ (transfer_rows # <<>> \/ withdraw_rows # <<>>) => need_roster
       /\ roster_info' =
            IF need_roster /\ need \subseteq header_map
            THEN ScanRosterInfo(analyze_roster_once(roster, input_year),
                                BasisDate(roster_basis_date, modified_date, work_date),
                                school_start_date)
            ELSE NoRosterInfo
       /\ scan' = [ok |-> TRUE, can_execute |-> can]
  /\ pc' = "scan_returned"
  /\ UNCHANGED <<roster, input_year, transfer_rows, withdraw_rows,
                 school_start_date, work_date, transfer_done_rows,
                 transfer_hold_rows, prefix_by_grade, withdraw_done_rows,
                 withdraw_hold_rows, withdraw_outcome, header_map, result, arg,
                 ret, roster_basis_date, modified_date>>

\* "if not scan.ok" / "if not scan.can_execute": return
\* PipelineResult(ok=False, outputs=[], logs=logs)
RunPipelineStops ==
  /\ pc = "scan_returned"
  /\ ~CanExecute(scan)
  /\ result' = FailedResult
  /\ pc' = "finished"
  /\ UNCHANGED <<roster, input_year, transfer_rows, withdraw_rows,
                 school_start_date, work_date, roster_info, transfer_done_rows,
                 transfer_hold_rows, prefix_by_grade, withdraw_done_rows,
                 withdraw_hold_rows, withdraw_outcome, header_map, arg, ret,
                 roster_basis_date, modified_date, scan>>

\* result = execute_pipeline(scan=scan, ...): the call, up to the inputs read
ExecutePipelineStarts ==
  /\ pc = "scan_returned"
  /\ CanExecute(scan)
  /\ pc' = "scanned"
  /\ UNCHANGED <<roster, input_year, transfer_rows, withdraw_rows,
                 school_start_date, work_date, roster_info, transfer_done_rows,
                 transfer_hold_rows, prefix_by_grade, withdraw_done_rows,
                 withdraw_hold_rows, withdraw_outcome, header_map, result, arg,
                 ret, roster_basis_date, modified_date, scan>>

\* an exception after the transfer or the withdrawal step (a file that cannot
\* be written): the except returns PipelineResult(ok=False, outputs=[])
ExecutePipelineRaisesLate ==
  /\ pc \in {"transfer_done", "withdraw_done"}
  /\ result' = FailedResult
  /\ pc' = "finished"
  /\ UNCHANGED <<roster, input_year, transfer_rows, withdraw_rows,
                 school_start_date, work_date, roster_info, transfer_done_rows,
                 transfer_hold_rows, prefix_by_grade, withdraw_done_rows,
                 withdraw_hold_rows, withdraw_outcome, header_map, arg, ret,
                 roster_basis_date, modified_date, scan>>

NextP ==
  \/ RunPipelineNoSchoolName
  \/ ScanPipelineRaises
  \/ ScanPipelineReturns
  \/ RunPipelineStops
  \/ ExecutePipelineStarts
  \/ BuildTransferIds
  \/ BuildWithdrawOutputs
  \/ ExecutePipelineRaises
  \/ ExecutePipelineRaisesLate
  \/ PipelineResultOk

SpecP == InitP /\ [][NextP]_vars

\* a direct call of normalize_name and normalize_name_key on a raw name cell:
\* a Latin capital, a Latin small letter, a blank and a Hangul syllable
RawChars == {76, 105, 32, 44032}

RawNames == SeqsUpTo(RawChars, MaxRaw)

InitM ==
  /\ arg \in RawNames
  /\ roster_basis_date = 0 /\ modified_date = 0 /\ scan = NoScan
  /\ ret = <<>>
  /\ pc = "start"
  /\ roster = <<>> /\ input_year \in InputYears
  /\ transfer_rows = <<>> /\ withdraw_rows = <<>>
  /\ school_start_date = 2 /\ work_date = 1
  /\ header_map = need /\ result = NoResult /\ roster_info = NoRosterInfo
  /\ transfer_done_rows = <<>> /\ transfer_hold_rows = <<>> /\ prefix_by_grade = <<>>
  /\ withdraw_done_rows = <<>> /\ withdraw_hold_rows = <<>> /\ withdraw_outcome = <<>>

\* the display name and key of the raw cell, and the display name and key
\* read back from a cell that holds the display name
CallNormalizeName ==
  /\ pc = "start"
  /\ ret' = [display |-> normalize_name(arg),
             key |-> normalize_name_key(arg),
             display_again |-> normalize_name(normalize_name(arg)),
             key_again |-> normalize_name_key(normalize_name(arg))]
  /\ pc' = "returned"
  /\ UNCHANGED <<roster, input_year, transfer_rows, withdraw_rows,
                 school_start_date, work_date, roster_info, transfer_done_rows,
                 transfer_hold_rows, prefix_by_grade, withdraw_done_rows,
                 withdraw_hold_rows, withdraw_outcome, header_map, result, arg,
                 roster_basis_date, modified_date, scan>>

NextM == CallNormalizeName

SpecM == InitM /\ [][NextM]_vars

\* ---------------------------------------------------------------- claims
TransferBuilt == pc = "transfer_done"

\* C1: within one build_transfer_ids call no two assigned (done) records
\* receive the same identifier.
C1_DistinctAssignedIds ==
  TransferBuilt =>
    \A i, j \in 1..Len(transfer_done_rows) :
       i # j => transfer_done_rows[i].id # transfer_done_rows[j].id

\* C2: no identifier assigned by build_transfer_ids equals an identifier
\* already carried by a row of the roster the statistics were computed from.
C2_NoRosterIdReassigned ==
  TransferBuilt =>
    \A i \in 1..Len(transfer_done_rows) : \A k \in 1..Len(roster) :
       transfer_done_rows[i].id # Strip(roster[k].id)

CandidateOf(r) ==
  [grade |-> r.grade, class |-> r.class, number |-> r.number, name |-> r.name]

CountIn(seq, c) == Cardinality({i \in 1..Len(seq) : CandidateOf(seq[i]) = c})

\* C3: build_transfer_ids returns done and hold with len(done) + len(hold) =
\* len(candidates), and every candidate appears in exactly one of the two
\* lists: each candidate occurs in done and hold together as often as in the
\* input.
C3_TransferPartition ==
  TransferBuilt =>
    /\ Len(transfer_done_rows) + Len(transfer_hold_rows) = Len(transfer_rows)
    /\ \A k \in 1..Len(transfer_rows) :
         CountIn(transfer_done_rows, transfer_rows[k])
           + CountIn(transfer_hold_rows, transfer_rows[k])
         = CountIn(transfer_rows, transfer_rows[k])

\* a run that both assigned and held
C3_Witness ==
  /\ TransferBuilt
  /\ Len(transfer_done_rows) >= 1
  /\ Len(transfer_hold_rows) >= 1

\* ------------------------------------------------- withdrawal claims
WithdrawBuilt == pc = "withdraw_done"

\* What a roster row offers the matcher, read off the sheet: its name key,
\* its two class cells, its identifier, and the grade it is indexed under
\* (that of the current class, of the previous class when the current cell
\* is empty).
RECURSIVE RowFacts(_)
RowFacts(rows) ==
  IF rows = <<>> THEN <<>>
  ELSE LET row == rows[Len(rows)]
           base == Strip(IF row.now # <<>> THEN row.now ELSE row.prev)
           parsed == parse_class_str(base)
       IN  Append(RowFacts(SubSeq(rows, 1, Len(rows) - 1)),
                  [key |-> normalize_name_key(row.name),
                   now |-> Strip(row.now),
                   prev |-> Strip(row.prev),
                   id |-> Strip(row.id),
                   graded |-> base # <<>> /\ parsed.ok,
                   grade |-> parsed.grade])

\* the rows matching (class label, name key) through either class cell
ExactRows(facts, w, key) ==
  {k \in 1..Len(facts) :
     /\ facts[k].key = key /\ key # <<>>
     /\ facts[k].now = w.class \/ facts[k].prev = w.class}

\* the (name key, identifier) pairs indexed at grade g under the name key
GradeNameMatches(facts, g, key) ==
  {<<facts[k].key, facts[k].id>> :
     k \in {j \in 1..Len(facts) :
              facts[j].graded /\ facts[j].grade = g
              /\ facts[j].key = key /\ key # <<>>}}

\* the (name key, identifier) pairs indexed at grade g whose name key, with
\* its trailing Latin letters stripped, is the candidate's stripped key; none
\* when that stripped key is empty
SuffixMatches(facts, g, key) ==
  {<<facts[k].key, facts[k].id>> :
     k \in {j \in 1..Len(facts) :
              /\ facts[j].graded /\ facts[j].grade = g /\ g > 0
              /\ facts[j].key # <<>>
              /\ _strip_name_suffix(key) # <<>>
              /\ _strip_name_suffix(facts[j].key) = _strip_name_suffix(key)}}

IsDone(o) == o.kind = "done"
IsHeldFor(o, text) == o.kind = "hold" /\ o.rec.reason.text = text

DoneRecs(outs) ==
  LET d == SelectSeq(outs, IsDone) IN [i \in 1..Len(d) |-> d[i].rec]

HoldRecs(outs) ==
  LET isHold(o) == o.kind = "hold"
      h == SelectSeq(outs, isHold)
  IN  [i \in 1..Len(h) |-> h[i].rec]

NameCountIn(seq, nm) == Cardinality({i \in 1..Len(seq) : seq[i].name = nm})

\* C4: build_withdraw_outputs puts each candidate into exactly one of done or
\* hold, so len(done) + len(hold) = len(withdrawals): the i-th candidate's
\* record is in the list its outcome names, the two lists hold exactly those
\* records in candidate order, and every name occurs in done and hold
\* together as often as among the candidates.
C4_WithdrawPartition ==
  WithdrawBuilt =>
    /\ Len(withdraw_done_rows) + Len(withdraw_hold_rows) = Len(withdraw_rows)
    /\ Len(withdraw_outcome) = Len(withdraw_rows)
    /\ withdraw_done_rows = DoneRecs(withdraw_outcome)
    /\ withdraw_hold_rows = HoldRecs(withdraw_outcome)
    /\ \A c \in 1..Len(withdraw_rows) :
         /\ withdraw_outcome[c].rec.name = withdraw_rows[c].name
         /\ NameCountIn(withdraw_done_rows, withdraw_rows[c].name)
              + NameCountIn(withdraw_hold_rows, withdraw_rows[c].name)
            = NameCountIn(withdraw_rows, withdraw_rows[c].name)

\* a run with a resolved candidate and an auto-excluded one
C4_Witness ==
  /\ WithdrawBuilt
  /\ Len(withdraw_done_rows) >= 1
  /\ \E c \in 1..Len(withdraw_outcome) : IsHeldFor(withdraw_outcome[c], "auto-excluded")

\* C5: when the exact (class, name) lookup is empty and the grade and
\* grade+1 name lookups together hold two or more entries, the candidate is
\* held with the ambiguous grade+name reason (N candidates) and is not
\* accepted.
C5_AmbiguousIsHeld ==
  WithdrawBuilt =>
    LET facts == RowFacts(roster) IN
    \A c \in 1..Len(withdraw_rows) :
       LET w == withdraw_rows[c]
           key == normalize_name_key(w.name)
           n == Cardinality(GradeNameMatches(facts, w.grade, key))
                + Cardinality(GradeNameMatches(facts, w.grade + 1, key))
       IN  (ExactRows(facts, w, key) = {} /\ n >= 2) =>
             /\ IsHeldFor(withdraw_outcome[c], "ambiguous grade+name match")
             /\ withdraw_outcome[c].rec.reason.n = n

\* C6: if exactly one roster row matches the candidate's (class label, name
\* key) through its current-class or previous-class field, the candidate is
\* accepted and resolved to that row's identifier.
C6_SingleExactRowAccepted ==
  WithdrawBuilt =>
    LET facts == RowFacts(roster) IN
    \A c \in 1..Len(withdraw_rows) :
       LET w == withdraw_rows[c]
           rows == ExactRows(facts, w, normalize_name_key(w.name))
       IN  Cardinality(rows) = 1 =>
             /\ IsDone(withdraw_outcome[c])
             /\ \A k \in rows : withdraw_outcome[c].rec.id = facts[k].id

\* the rows a resolved candidate's identifier belongs to
ResolvedRows(facts, o) == {k \in 1..Len(facts) : facts[k].id = o.rec.id}

\* C7 as stated: every accepted record carries the matched roster row's
\* current-class field as its class label.
C7_AlwaysCurrentClass ==
  WithdrawBuilt =>
    LET facts == RowFacts(roster) IN
    \A c \in 1..Len(withdraw_outcome) :
       IsDone(withdraw_outcome[c]) =>
         \A k \in ResolvedRows(facts, withdraw_outcome[c]) :
            withdraw_outcome[c].rec.withdraw_class = facts[k].now

\* C7: every accepted record carries the matched roster row's current-class
\* field as its class label whenever that field is not empty, whichever
\* field produced the match; when the current-class cell is empty it
\* carries the row's previous-class field.
C7_CurrentClassUnlessEmpty ==
  WithdrawBuilt =>
    LET facts == RowFacts(roster) IN
    \A c \in 1..Len(withdraw_outcome) :
       IsDone(withdraw_outcome[c]) =>
         \A k \in ResolvedRows(facts, withdraw_outcome[c]) :
            withdraw_outcome[c].rec.withdraw_class =
              IF facts[k].now # <<>> THEN facts[k].now ELSE facts[k].prev

\* a candidate accepted through the previous-class field of a row whose
\* current class is another one
C7_Witness ==
  /\ WithdrawBuilt
  /\ \E c \in 1..Len(withdraw_outcome) :
       /\ IsDone(withdraw_outcome[c])
       /\ \E k \in ResolvedRows(RowFacts(roster), withdraw_outcome[c]) :
            /\ RowFacts(roster)[k].prev = withdraw_rows[c].class
            /\ RowFacts(roster)[k].now # <<>>
            /\ RowFacts(roster)[k].now # withdraw_rows[c].class
            /\ withdraw_outcome[c].rec.withdraw_class = RowFacts(roster)[k].now

\* the candidate reaches the suffix-stripped retry: no exact class match and
\* the grade and grade+1 name lookups do not single out one entry
InRetry(facts, w, key) ==
  /\ key # <<>>
  /\ ExactRows(facts, w, key) = {}
  /\ Cardinality(GradeNameMatches(facts, w.grade, key))
       + Cardinality(GradeNameMatches(facts, w.grade + 1, key)) # 1

\* C8 as stated: in the suffix-stripped retry a candidate is accepted only
\* when the own grade and grade+1 taken together hold exactly one
\* stripped-form match, and is held with the manual-confirmation reason when
\* together they hold two or more.
C8_RetryCountsBothGrades ==
  WithdrawBuilt =>
    LET facts == RowFacts(roster) IN
    \A c \in 1..Len(withdraw_rows) :
       LET w == withdraw_rows[c]
           key == normalize_name_key(w.name)
           n == Cardinality(SuffixMatches(facts, w.grade, key))
                + Cardinality(SuffixMatches(facts, w.grade + 1, key))
       IN  InRetry(facts, w, key) =>
             /\ IsDone(withdraw_outcome[c]) => n = 1
             /\ n >= 2 => IsHeldFor(withdraw_outcome[c], "duplicate-name manual confirmation")

\* C8: in the suffix-stripped retry the own grade is looked at first and
\* grade+1 only when the own grade has no stripped-form match: the candidate
\* is accepted exactly when the own grade has one stripped-form match, or
\* none and grade+1 has one; it is held with the manual-confirmation reason
\* exactly when the own grade has two or more, or none and grade+1 has two
\* or more.
C8_RetryOwnGradeFirst ==
  WithdrawBuilt =>
    LET facts == RowFacts(roster) IN
    \A c \in 1..Len(withdraw_rows) :
       LET w == withdraw_rows[c]
           key == normalize_name_key(w.name)
           n0 == Cardinality(SuffixMatches(facts, w.grade, key))
           n1 == Cardinality(SuffixMatches(facts, w.grade + 1, key))
       IN  InRetry(facts, w, key) =>
             /\ IsDone(withdraw_outcome[c]) <=> (n0 = 1 \/ (n0 = 0 /\ n1 = 1))
             /\ IsHeldFor(withdraw_outcome[c], "duplicate-name manual confirmation")
                  <=> (n0 >= 2 \/ (n0 = 0 /\ n1 >= 2))

\* a candidate accepted in the retry although its own grade and grade+1
\* together hold two stripped-form matches
C8_Witness ==
  /\ WithdrawBuilt
  /\ \E c \in 1..Len(withdraw_rows) :
       LET facts == RowFacts(roster)
           w == withdraw_rows[c]
           key == normalize_name_key(w.name)
       IN  /\ InRetry(facts, w, key)
           /\ Cardinality(SuffixMatches(facts, w.grade, key)) = 1
           /\ Cardinality(SuffixMatches(facts, w.grade + 1, key)) >= 1
           /\ IsDone(withdraw_outcome[c])

\* the rows indexed at grade g whose name key is the candidate's followed by
\* a non-empty run of Latin letters
MarkerKeys(facts, g, key) ==
  {facts[k].key :
     k \in {j \in 1..Len(facts) :
              /\ facts[j].graded /\ facts[j].grade = g
              /\ key # <<>>
              /\ Len(facts[j].key) > Len(key)
              /\ SubSeq(facts[j].key, 1, Len(key)) = key
              /\ \A p \in (Len(key) + 1)..Len(facts[j].key) : EN_RE(facts[j].key[p])}}

\* C9: for any name, Latin-script or not: when two roster rows at the
\* candidate's grade carry the candidate's name followed by distinct trailing
\* markers and there is no exact class match, the candidate is held with the
\* manual-confirmation reason, neither resolved nor auto-excluded.
C9_MarkedNamesakesHeld ==
  WithdrawBuilt =>
    LET facts == RowFacts(roster) IN
    \A c \in 1..Len(withdraw_rows) :
       LET w == withdraw_rows[c]
           key == normalize_name_key(w.name)
       IN  (ExactRows(facts, w, key) = {}
            /\ Cardinality(MarkerKeys(facts, w.grade, key)) >= 2) =>
             IsHeldFor(withdraw_outcome[c], "duplicate-name manual confirmation")

\* C10: a candidate receives the auto-excluded hold reason exactly when the
\* exact class+name lookup, the grade and grade+1 name lookups and the
\* suffix-stripped lookups at grade and grade+1 all return no roster row; an
\* auto-excluded candidate is a hold record, is not in done and carries no
\* manual-review reason.
C10_AutoExcludedIffNoMatch ==
  WithdrawBuilt =>
    LET facts == RowFacts(roster) IN
    \A c \in 1..Len(withdraw_rows) :
       LET w == withdraw_rows[c]
           key == normalize_name_key(w.name)
           nothing ==
             /\ ExactRows(facts, w, key) = {}
             /\ GradeNameMatches(facts, w.grade, key) = {}
             /\ GradeNameMatches(facts, w.grade + 1, key) = {}
             /\ SuffixMatches(facts, w.grade, key) = {}
             /\ SuffixMatches(facts, w.grade + 1, key) = {}
       IN  /\ IsHeldFor(withdraw_outcome[c], "auto-excluded") <=> nothing
           /\ nothing =>
                /\ ~IsDone(withdraw_outcome[c])
                /\ withdraw_outcome[c].rec \in {withdraw_hold_rows[h] : h \in 1..Len(withdraw_hold_rows)}
                /\ withdraw_outcome[c].rec.reason.text
                     \notin {"duplicate-name manual confirmation",
                             "ambiguous grade+name match", "duplicate match"}

\* an auto-excluded candidate whose grade has roster rows, all of them under
\* other names
C10_Witness ==
  /\ WithdrawBuilt
  /\ \E c \in 1..Len(withdraw_rows) :
       /\ IsHeldFor(withdraw_outcome[c], "auto-excluded")
       /\ \E k \in 1..Len(roster) :
            /\ RowFacts(roster)[k].graded
            /\ RowFacts(roster)[k].grade = withdraw_rows[c].grade
            /\ RowFacts(roster)[k].key # normalize_name_key(withdraw_rows[c].name)

\* ------------------------------------------------------ run result claims
RunFinished == pc = "finished" /\ result.ok = TRUE

OutcomesHeldFor(text) ==
  {c \in 1..Len(withdraw_outcome) : IsHeldFor(withdraw_outcome[c], text)}

OutcomesHeld == {c \in 1..Len(withdraw_outcome) : withdraw_outcome[c].kind = "hold"}

\* C11: the auto-excluded records are counted separately from the hold
\* count: the reported auto-skip count is the number of auto-excluded
\* candidates, it never exceeds the hold count, and the manual-review count
\* shown for the run is the hold count minus the auto-skip count, the number
\* of candidates held for any other reason.
C11_ManualCountExcludesAutoExcluded ==
  RunFinished =>
    LET manual == withdraw_hold_manual(result.transfer_out_hold,
                                       result.transfer_out_auto_skip)
    IN  /\ result.transfer_out_auto_skip = Cardinality(OutcomesHeldFor("auto-excluded"))
        /\ result.transfer_out_auto_skip <= result.transfer_out_hold
        /\ manual = result.transfer_out_hold - result.transfer_out_auto_skip
        /\ manual = Cardinality(OutcomesHeld \ OutcomesHeldFor("auto-excluded"))

\* a finished run with an auto-excluded candidate and one held for review
C11_Witness ==
  /\ RunFinished
  /\ result.transfer_out_auto_skip >= 1
  /\ result.transfer_out_hold > result.transfer_out_auto_skip

\* C12: every record of the done list carries the same effective date,
\* school_start_date when work_date < school_start_date and work_date
\* otherwise, so none is dated before school_start_date.
C12_EffectiveDate ==
  WithdrawBuilt =>
    \A d \in 1..Len(withdraw_done_rows) :
       /\ work_date < school_start_date => withdraw_done_rows[d].eff = school_start_date
       /\ work_date >= school_start_date => withdraw_done_rows[d].eff = work_date
       /\ withdraw_done_rows[d].eff >= school_start_date
       /\ withdraw_done_rows[d].eff = withdraw_done_rows[1].eff

\* two accepted records on a work date before the school start date
C12_Witness ==
  /\ WithdrawBuilt
  /\ Len(withdraw_done_rows) >= 2
  /\ work_date < school_start_date

\* ------------------------------------------------------- transfer claims
\* the k-th letter
Letter(k) == <<64 + k>>

\* the grade 1 candidates among the first n that carry the k-th one's name
Grade1Namesakes(k, n) ==
  {j \in 1..n : transfer_rows[j].grade = 1 /\ transfer_rows[j].name = transfer_rows[k].name}

\* the record the k-th candidate, of grade 1, is to be assigned
Grade1Record(k) ==
  LET tr == transfer_rows[k]
      suffix == IF Cardinality(Grade1Namesakes(k, Len(transfer_rows))) = 1
                THEN <<>>
                ELSE Letter(Cardinality(Grade1Namesakes(k, k)))
  IN  [grade |-> tr.grade, class |-> tr.class, number |-> tr.number,
       name |-> tr.name, id |-> IntToStr(input_year) \o tr.name \o suffix]

Grade1Positions == {k \in 1..Len(transfer_rows) : transfer_rows[k].grade = 1}

\* C13: every grade 1 candidate is assigned, never held, whatever the roster
\* statistics; its identifier is input_year + name + suffix, the suffix
\* being empty for a name that occurs once among the grade 1 candidates and
\* the letter of its occurrence index in candidate order otherwise ("A" for
\* the earlier, "B" for the later), wherever the sort places the records.
C13_Grade1Assigned ==
  TransferBuilt =>
    /\ \A h \in 1..Len(transfer_hold_rows) : transfer_hold_rows[h].grade # 1
    /\ \A k \in Grade1Positions :
         Cardinality({d \in 1..Len(transfer_done_rows) :
                        transfer_done_rows[d] = Grade1Record(k)})
         = Cardinality({j \in Grade1Positions : Grade1Record(j) = Grade1Record(k)})
    /\ Cardinality({d \in 1..Len(transfer_done_rows) : transfer_done_rows[d].grade = 1})
       = Cardinality(Grade1Positions)

\* two grade 1 candidates of one name which the sort puts in the other order
\* than the input: the later one, with suffix B, comes first in done
C13_Witness ==
  /\ TransferBuilt
  /\ Len(transfer_rows) >= 2
  /\ transfer_rows[1].grade = 1 /\ transfer_rows[2].grade = 1
  /\ transfer_rows[1].name = transfer_rows[2].name
  /\ transfer_done_rows[1] = Grade1Record(2)
  /\ transfer_done_rows[1] # Grade1Record(1)
  /\ roster = <<>>

OtherPositions == {k \in 1..Len(transfer_rows) : transfer_rows[k].grade # 1}

\* rosterGrade = candidate.grade + ref_grade_shift
RosterGradeOf(k) == transfer_rows[k].grade + roster_info.ref_grade_shift

HasPrefixMode(k) == RosterGradeOf(k) \in DOMAIN roster_info.prefix_mode_by_roster_grade

\* the hold record of the k-th candidate: its fields and the roster grade
HeldRecord(k) ==
  [grade |-> transfer_rows[k].grade, class |-> transfer_rows[k].class,
   number |-> transfer_rows[k].number, name |-> transfer_rows[k].name,
   reason |-> [text |-> "no id prefix mode for roster grade",
               roster_grade |-> RosterGradeOf(k)]]

\* C14: a candidate with grade != 1 is held if and only if
\* prefix_mode_by_roster_grade has no entry for rosterGrade = grade +
\* ref_grade_shift; the held record keeps the candidate's fields and its
\* reason names that rosterGrade; otherwise the candidate is assigned.
C14_HeldIffNoPrefixMode ==
  TransferBuilt =>
    \A k \in OtherPositions :
       LET same == {j \in OtherPositions : transfer_rows[j] = transfer_rows[k]}
           held == {h \in 1..Len(transfer_hold_rows) : transfer_hold_rows[h] = HeldRecord(k)}
           heldAny == {h \in 1..Len(transfer_hold_rows) :
                         CandidateOf(transfer_hold_rows[h]) = transfer_rows[k]}
           assigned == {d \in 1..Len(transfer_done_rows) :
                          CandidateOf(transfer_done_rows[d]) = transfer_rows[k]}
       IN  IF HasPrefixMode(k)
           THEN heldAny = {} /\ Cardinality(assigned) = Cardinality(same)
           ELSE /\ assigned = {}
                /\ heldAny = held
                /\ Cardinality(held) = Cardinality(same)

\* a last-year roster: of two candidates one is held for the roster grade
\* below its own and one is assigned
C14_Witness ==
  /\ TransferBuilt
  /\ roster_info.ref_grade_shift = -1
  /\ \E k \in OtherPositions : ~HasPrefixMode(k)
  /\ \E k \in OtherPositions : HasPrefixMode(k)

\* the roster rows counted under (grade, name): the current class parses to
\* the grade and the normalized name is the name
RosterNamesakes(g, nm) ==
  {r \in 1..Len(roster) :
     /\ parse_class_str(roster[r].now).ok
     /\ parse_class_str(roster[r].now).grade = g
     /\ normalize_name(roster[r].name) = nm}

\* addSeq: the candidates up to the k-th of its current grade and its name
SeenSoFar(k) ==
  {j \in 1..k : /\ transfer_rows[j].grade = transfer_rows[k].grade
                /\ transfer_rows[j].name = transfer_rows[k].name}

\* the record an assigned candidate of grade != 1 is to get
OtherRecord(k) ==
  LET tr == transfer_rows[k]
      prefix == roster_info.prefix_mode_by_roster_grade[RosterGradeOf(k)]
      suffix == IF RosterNamesakes(RosterGradeOf(k), tr.name) # {}
                THEN Letter(Cardinality(SeenSoFar(k)))
                ELSE <<>>
  IN  [grade |-> tr.grade, class |-> tr.class, number |-> tr.number,
       name |-> tr.name, id |-> IntToStr(prefix) \o tr.name \o suffix]

AssignedPositions == {k \in OtherPositions : HasPrefixMode(k)}

\* C15: an assigned candidate with grade != 1 gets prefix + name + suffix,
\* prefix being the prefix mode of rosterGrade and suffix the letters of
\* addSeq when the roster counts the name at rosterGrade, empty otherwise;
\* addSeq is the candidate's 1-based occurrence index among the candidates
\* of its current grade and name, in input order.
C15_OtherGradeIdentifier ==
  TransferBuilt =>
    \A k \in AssignedPositions :
       Cardinality({d \in 1..Len(transfer_done_rows) :
                      transfer_done_rows[d] = OtherRecord(k)})
       = Cardinality({j \in AssignedPositions : OtherRecord(j) = OtherRecord(k)})

\* a second candidate of a grade and name which a last-year roster counts
\* at the grade below
C15_Witness ==
  /\ TransferBuilt
  /\ roster_info.ref_grade_shift = -1
  /\ \E k \in AssignedPositions :
       /\ Cardinality(SeenSoFar(k)) = 2
       /\ RosterNamesakes(RosterGradeOf(k), transfer_rows[k].name) # {}

\* a cell that parses as an integer, and the integer
ParsesAsInt(x) == _safe_int(x).tag = 0
IntOf(x) == _safe_int(x).num

\* x before y as class or number: numerically when both parse, a parsing one
\* before a non-parsing one, two non-parsing ones as strings
CellBefore(x, y) ==
  IF ParsesAsInt(x) /\ ParsesAsInt(y) THEN IntOf(x) < IntOf(y)
  ELSE IF ParsesAsInt(x) THEN TRUE
  ELSE IF ParsesAsInt(y) THEN FALSE
  ELSE StrLess(x, y)

CellSame(x, y) == ~CellBefore(x, y) /\ ~CellBefore(y, x)

\* r strictly before s by (grade, class, number, name)
RecordBefore(r, s) ==
  \/ r.grade < s.grade
  \/ r.grade = s.grade /\ CellBefore(r.class, s.class)
  \/ r.grade = s.grade /\ CellSame(r.class, s.class) /\ CellBefore(r.number, s.number)
  \/ r.grade = s.grade /\ CellSame(r.class, s.class) /\ CellSame(r.number, s.number)
     /\ StrLess(r.name, s.name)

Ascending(seq) == \A i, j \in 1..Len(seq) : i < j => ~RecordBefore(seq[j], seq[i])

\* the records in the order the loops append them: the grade 1 candidates,
\* then the other assigned ones, each in input order; the held ones
RECURSIVE AppendedDone(_, _)
AppendedDone(k, grade1) ==
  IF k = 0 THEN <<>>
  ELSE IF grade1 /\ k \in Grade1Positions
       THEN Append(AppendedDone(k - 1, grade1), Grade1Record(k))
  ELSE IF ~grade1 /\ k \in AssignedPositions
       THEN Append(AppendedDone(k - 1, grade1), OtherRecord(k))
  ELSE AppendedDone(k - 1, grade1)

RECURSIVE AppendedHold(_)
AppendedHold(k) ==
  IF k = 0 THEN <<>>
  ELSE IF k \in OtherPositions /\ ~HasPrefixMode(k)
       THEN Append(AppendedHold(k - 1), HeldRecord(k))
  ELSE AppendedHold(k - 1)

\* two different records with equal keys stand in sorted as they stand in
\* appended
KeepsInputOrder(appended, sorted) ==
  \A i, j \in 1..Len(sorted) :
     (i < j /\ sorted[i] # sorted[j] /\ ~RecordBefore(sorted[i], sorted[j])) =>
       LET both(r) == r \in {sorted[i], sorted[j]}
       IN  SelectSeq(appended, both) = SelectSeq(sorted, both)

\* C16: done and hold are sorted ascending by (grade, class, number, name),
\* a class or number that parses as an integer being compared numerically
\* and sorting before one that does not parse; records with equal keys keep
\* their input order.
C16_SortedStable ==
  TransferBuilt =>
    LET n == Len(transfer_rows)
    IN  /\ Ascending(transfer_done_rows)
        /\ Ascending(transfer_hold_rows)
        /\ KeepsInputOrder(AppendedDone(n, TRUE) \o AppendedDone(n, FALSE),
                           transfer_done_rows)
        /\ KeepsInputOrder(AppendedHold(n), transfer_hold_rows)

\* class 10 after class 2 (or 01), and two records with equal keys
C16_Witness ==
  /\ TransferBuilt
  /\ \E i, j \in 1..Len(transfer_done_rows) :
       /\ i < j
       /\ transfer_done_rows[i].grade = transfer_done_rows[j].grade
       /\ StrLess(transfer_done_rows[j].class, transfer_done_rows[i].class)
  /\ \E i, j \in 1..Len(transfer_done_rows) :
       /\ i < j
       /\ transfer_done_rows[i] # transfer_done_rows[j]
       /\ ~RecordBefore(transfer_done_rows[i], transfer_done_rows[j])

\* ------------------------------------------------------- analysis claims
Scanned == pc = "scanned"

\* the rows the scan counts: the current class parses and the name
\* normalises to a non-empty string
CountedRows ==
  {r \in 1..Len(roster) :
     parse_class_str(roster[r].now).ok /\ normalize_name(roster[r].name) # <<>>}

GradeOfRow(r) == parse_class_str(roster[r].now).grade
PrefixOfRow(r) == extract_id_prefix4(roster[r].id).p4

\* the counted rows of grade g whose identifier starts with four digits
PrefixRows(g) ==
  {r \in CountedRows : GradeOfRow(r) = g /\ extract_id_prefix4(roster[r].id).ok}

\* the prefixes of grade g that no other prefix of the grade outnumbers
ModalPrefixes(g) ==
  LET n(p) == Cardinality({r \in PrefixRows(g) : PrefixOfRow(r) = p})
  IN  {PrefixOfRow(r) : r \in {q \in PrefixRows(g) :
         \A o \in PrefixRows(g) : n(PrefixOfRow(o)) <= n(PrefixOfRow(q))}}

\* the roster time and shift that the modal prefix m stands for
TimeFor(m) ==
  IF m = input_year THEN <<"this_year", 0>>
  ELSE IF m = input_year - 1 THEN <<"last_year", -1>>
  ELSE <<"unknown", 0>>

\* C17 as stated: the roster time follows the modal prefix of the grade 1
\* rows, and without a grade 1 row with a parsable prefix the result is
\* (unknown, 0) with empty maps.
C17_NoGrade1PrefixEmptyMaps ==
  Scanned =>
    /\ PrefixRows(1) # {} =>
         \E m \in ModalPrefixes(1) :
            <<roster_info.roster_time, roster_info.ref_grade_shift>> = TimeFor(m)
    /\ PrefixRows(1) = {} =>
         /\ <<roster_info.roster_time, roster_info.ref_grade_shift>> = <<"unknown", 0>>
         /\ DOMAIN roster_info.prefix_mode_by_roster_grade = {}
         /\ DOMAIN roster_info.name_count_by_roster_grade = {}

\* C17: the roster time follows the modal prefix m of the counted grade 1
\* rows, the one met first in sheet order among equally frequent ones:
\* (this_year, 0) when m = input_year, (last_year, -1) when m = input_year -
\* 1, (unknown, 0) otherwise and when no counted grade 1 row has a prefix.
\* The prefix map has an entry for exactly the grades with a prefixed
\* counted row and the name counts for exactly the grades with a counted
\* row; both are empty when no row is counted.
C17_RosterTimeFromGrade1Mode ==
  Scanned =>
    /\ PrefixRows(1) # {} =>
         LET first == CHOOSE r \in PrefixRows(1) :
                        /\ PrefixOfRow(r) \in ModalPrefixes(1)
                        /\ \A q \in PrefixRows(1) :
                             PrefixOfRow(q) \in ModalPrefixes(1) => r <= q
         IN  <<roster_info.roster_time, roster_info.ref_grade_shift>>
               = TimeFor(PrefixOfRow(first))
    /\ PrefixRows(1) = {} =>
         <<roster_info.roster_time, roster_info.ref_grade_shift>> = <<"unknown", 0>>
    /\ DOMAIN roster_info.prefix_mode_by_roster_grade
         = {GradeOfRow(r) : r \in {q \in CountedRows : extract_id_prefix4(roster[q].id).ok}}
    /\ DOMAIN roster_info.name_count_by_roster_grade
         = {GradeOfRow(r) : r \in CountedRows}
    /\ \A g \in DOMAIN roster_info.prefix_mode_by_roster_grade :
         roster_info.prefix_mode_by_roster_grade[g] \in ModalPrefixes(g)

\* last year's prefix outnumbers this year's two to one although this
\* year's comes first
C17_Witness ==
  /\ Scanned
  /\ Len(roster) = 3
  /\ PrefixRows(1) = {1, 2, 3}
  /\ PrefixOfRow(1) = input_year
  /\ ModalPrefixes(1) = {input_year - 1}
  /\ roster_info.roster_time = "last_year"

\* --------------------------------------------------- name helper claims
Returned == pc = "returned"

AllCapitals(s) == \A i \in 1..Len(s) : s[i] \in 65..90

\* how many strings over A-Z have between 1 and len - 1 letters
RECURSIVE StringsOfLength(_)
StringsOfLength(len) == IF len = 0 THEN 1 ELSE 26 * StringsOfLength(len - 1)

RECURSIVE ShorterStrings(_)
ShorterStrings(len) ==
  IF len <= 1 THEN 0 ELSE ShorterStrings(len - 1) + StringsOfLength(len - 1)

\* how many strings of the length of s come before s alphabetically
RECURSIVE AlphabeticalIndex(_)
AlphabeticalIndex(s) ==
  IF s = <<>> THEN 0
  ELSE 26 * AlphabeticalIndex(SubSeq(s, 1, Len(s) - 1)) + (s[Len(s)] - 65)

\* the 1-based position of s in length-then-alphabetical order
RankOf(s) == ShorterStrings(Len(s)) + AlphabeticalIndex(s) + 1

\* the number a string of A-Z stands for, A = 1 ... Z = 26, without a zero
RECURSIVE NumeralValue(_)
NumeralValue(s) ==
  IF s = <<>> THEN 0
  ELSE 26 * NumeralValue(SubSeq(s, 1, Len(s) - 1)) + (s[Len(s)] - 64)

\* C18: dedup_suffix_letters(n) is the bijective base-26 numeral of n over
\* A-Z: for n >= 1 it is the n-th string in length-then-alphabetical order
\* (1 -> A, 26 -> Z, 27 -> AA, 52 -> AZ, 53 -> BA), and since the string
\* stands for n alone, distinct n give distinct suffixes.
C18_BijectiveBase26 ==
  (Returned /\ arg >= 1) =>
    /\ AllCapitals(ret)
    /\ ret # <<>>
    /\ RankOf(ret) = arg
    /\ NumeralValue(ret) = arg
    /\ arg = 1 => ret = <<65>>
    /\ arg = 26 => ret = <<90>>
    /\ arg = 27 => ret = <<65, 65>>
    /\ arg = 52 => ret = <<65, 90>>
    /\ arg = 53 => ret = <<66, 65>>

\* the first suffix of three letters
C18_Witness == Returned /\ arg = 703 /\ ret = <<65, 65, 65>>

\* C19: apply_suffix_for_duplicates returns a list of the length and order
\* of its input: a name whose case-folded form occurs once is unchanged, one
\* whose case-folded form occurs more than once gets the letter of its
\* 1-based occurrence index among the equal case-folded names appended.
C19_SuffixByOccurrence ==
  Returned =>
    /\ Len(ret) = Len(arg)
    /\ \A i \in 1..Len(arg) :
         LET same(n) == {j \in 1..n : CaseFold(arg[j]) = CaseFold(arg[i])}
         IN  IF Cardinality(same(Len(arg))) = 1
             THEN ret[i] = arg[i]
             ELSE ret[i] = arg[i] \o Letter(Cardinality(same(i)))

\* three names, two of them equal only after case folding, around another
C19_Witness ==
  /\ Returned
  /\ Len(arg) = 3
  /\ arg[1] # arg[3]
  /\ ret[1] = arg[1] \o <<65>>
  /\ ret[2] = arg[2]
  /\ ret[3] = arg[3] \o <<66>>

\* ------------------------------------------------- malformed roster claim
HeaderMissing == ~(need \subseteq header_map)

\* C20: when the roster lacks any of the four required headers,
\* analyze_roster_once and build_withdraw_outputs raise and leave no
\* statistics and no records, and a run over that roster with transfer or
\* withdrawal rows ends with ok = False and an empty outputs list.
C20_MissingHeaderFails ==
  HeaderMissing =>
    /\ pc # "start" => ret = <<"ValueError">>
    /\ roster_info = NoRosterInfo
    /\ transfer_done_rows = <<>> /\ transfer_hold_rows = <<>>
    /\ withdraw_done_rows = <<>> /\ withdraw_hold_rows = <<>>
    /\ withdraw_outcome = <<>>
    /\ (pc = "finished" /\ (transfer_rows # <<>> \/ withdraw_rows # <<>>)) =>
         /\ result.ok = FALSE
         /\ result.outputs = <<>>

\* a finished run with withdrawal rows over a roster without the name header
C20_Witness ==
  /\ pc = "finished"
  /\ header_map = need \ {"name"}
  /\ withdraw_rows # <<>>
  /\ result.ok = FALSE
  /\ result.outputs = <<>>

InferredTime ==
  IF PrefixRows(1) = {} THEN <<"unknown", 0>>
  ELSE LET first == CHOOSE r \in PrefixRows(1) :
                      /\ PrefixOfRow(r) \in ModalPrefixes(1)
                      /\ \A q \in PrefixRows(1) :
                           PrefixOfRow(q) \in ModalPrefixes(1) => r <= q
       IN  TimeFor(PrefixOfRow(first))

\* C22 as stated: the roster_time and ref_grade_shift that the scan stores
\* and build_transfer_ids consumes are the ones inferred from the grade 1
\* prefix mode.
C22_StoredTimeIsInferred ==
  pc # "start" =>
    <<roster_info.roster_time, roster_info.ref_grade_shift>> = InferredTime

\* the date the scan compares with the school start date
UsedBasisDate ==
  IF roster_basis_date # 0 THEN roster_basis_date
  ELSE IF modified_date # 0 THEN modified_date ELSE work_date

\* C22: the scan replaces the inferred roster_time and ref_grade_shift before
\* storing roster_info: (last_year, -1) when the basis date is before the
\* school start date, else (this_year, 0); the inferred time is kept as
\* id_roster_time, the two maps are analyze_roster_once's, and
\* build_transfer_ids looks the prefix up under grade + the stored shift.
C22_StoredTimeFromBasisDate ==
  pc # "start" =>
    /\ <<roster_info.roster_time, roster_info.ref_grade_shift>>
         = IF UsedBasisDate < school_start_date
           THEN <<"last_year", -1>> ELSE <<"this_year", 0>>
    /\ roster_info.id_roster_time = InferredTime[1]
    /\ DOMAIN roster_info.prefix_mode_by_roster_grade
         = {GradeOfRow(r) : r \in {q \in CountedRows : extract_id_prefix4(roster[q].id).ok}}
    /\ pc = "transfer_done" =>
         \A h \in 1..Len(transfer_hold_rows) :
            transfer_hold_rows[h].reason.roster_grade
              = transfer_hold_rows[h].grade
                + (IF UsedBasisDate < school_start_date THEN -1 ELSE 0)

\* the grade 1 rows say this year, the basis date says last year, and a
\* grade 3 candidate is given the prefix of roster grade 2
C22_Witness ==
  /\ pc = "transfer_done"
  /\ InferredTime = <<"this_year", 0>>
  /\ roster_info.ref_grade_shift = -1
  /\ roster_basis_date = 0
  /\ Len(transfer_done_rows) = 1
  /\ transfer_done_rows[1].grade = 3

\* ------------------------------------------------- the grade+name index
\* roster_by_grade_name as build_withdraw_outputs builds it from the roster
GradeIndex == RosterIndex(roster).grade

GradeIndexKeys == {<<GradeIndex[e].grade, GradeIndex[e].name_key, GradeIndex[e].id>> :
                     e \in 1..Len(GradeIndex)}

\* the grade of a class cell, 0 when the cell is empty or does not parse
CellGrade(c) ==
  IF Strip(c) # <<>> /\ parse_class_str(Strip(c)).ok
  THEN parse_class_str(Strip(c)).grade ELSE 0

NamedRows == {r \in 1..Len(roster) : normalize_name_key(roster[r].name) # <<>>}

\* C23 as stated: every roster row is retrievable under the grade of its
\* current-class label and also under the grade of its previous-class
\* label, and no (grade, name key, identifier) is entered twice.
C23_IndexedUnderBothGrades ==
  WithdrawBuilt =>
    /\ \A r \in NamedRows :
         \A c \in {roster[r].now, roster[r].prev} :
            CellGrade(c) # 0 =>
              <<CellGrade(c), normalize_name_key(roster[r].name), Strip(roster[r].id)>>
                \in GradeIndexKeys
    /\ Len(GradeIndex) = Cardinality(GradeIndexKeys)

\* C23: the grade+name index is populated from one class field per roster
\* row, the current-class label, or the previous-class label when the
\* current-class cell is empty: a row is retrievable under the grade of
\* that label only, and a (grade, name key, identifier) met again is not
\* entered a second time.
C23_IndexedUnderOneGrade ==
  WithdrawBuilt =>
    /\ GradeIndexKeys =
         {<<CellGrade(IF roster[r].now # <<>> THEN roster[r].now ELSE roster[r].prev),
            normalize_name_key(roster[r].name), Strip(roster[r].id)>> :
            r \in {q \in NamedRows :
                     CellGrade(IF roster[q].now # <<>> THEN roster[q].now
                               ELSE roster[q].prev) # 0}}
    /\ Len(GradeIndex) = Cardinality(GradeIndexKeys)

\* a row promoted from 2-1 to 3-1 is in the index under grade 3 and not
\* under grade 2, and a row met twice is in it once
C23_Witness ==
  /\ WithdrawBuilt
  /\ Len(roster) = 2
  /\ roster[1] = roster[2]
  /\ CellGrade(roster[1].now) = 3
  /\ CellGrade(roster[1].prev) = 2
  /\ Len(GradeIndex) = 1
  /\ GradeIndex[1].grade = 3

\* ------------------------------------------------ rows the analysis counts
\* the rows whose current class parses and whose identifier starts with four
\* digits, whatever their name
ParsablePrefixRows(g) ==
  {r \in 1..Len(roster) :
     /\ parse_class_str(roster[r].now).ok
     /\ GradeOfRow(r) = g
     /\ extract_id_prefix4(roster[r].id).ok}

ParsableGrades == {GradeOfRow(r) : r \in {q \in 1..Len(roster) : parse_class_str(roster[q].now).ok}}

\* C24 as stated: a row is left out only when its class label does not
\* parse: every grade with a row of parsable class and four-digit identifier
\* prefix has its prefix frequencies, whatever the names.
C24_CountedWhateverName ==
  Scanned =>
    /\ DOMAIN roster_info.prefix_mode_by_roster_grade
         = {g \in ParsableGrades : ParsablePrefixRows(g) # {}}
    /\ DOMAIN roster_info.name_count_by_roster_grade = ParsableGrades

\* C24: a row is left out of both counters when its current-class label
\* does not parse or its name normalises to the empty string; every other
\* row is counted under its grade and normalised name, and, when its
\* identifier starts with four digits, in that grade's prefix frequencies.
C24_CountedRowsOnly ==
  Scanned =>
    /\ DOMAIN roster_info.name_count_by_roster_grade = {GradeOfRow(r) : r \in CountedRows}
    /\ \A g \in DOMAIN roster_info.name_count_by_roster_grade :
         /\ DOMAIN roster_info.name_count_by_roster_grade[g]
              = {normalize_name(roster[r].name) : r \in {q \in CountedRows : GradeOfRow(q) = g}}
         /\ \A nm \in DOMAIN roster_info.name_count_by_roster_grade[g] :
              roster_info.name_count_by_roster_grade[g][nm]
                = Cardinality({r \in CountedRows :
                                 GradeOfRow(r) = g /\ normalize_name(roster[r].name) = nm})
    /\ DOMAIN roster_info.prefix_mode_by_roster_grade
         = {g \in ParsableGrades : PrefixRows(g) # {}}
    /\ \A g \in DOMAIN roster_info.prefix_mode_by_roster_grade :
         \E r \in PrefixRows(g) : roster_info.prefix_mode_by_roster_grade[g] = PrefixOfRow(r)

\* a grade 1 row without a letter in its name comes first, with last year's
\* prefix, and the mode of grade 1 is the prefix of the row after it
C24_Witness ==
  /\ Scanned
  /\ Len(roster) = 2
  /\ ParsablePrefixRows(1) = {1, 2}
  /\ CountedRows = {2}
  /\ PrefixOfRow(1) # PrefixOfRow(2)
  /\ roster_info.prefix_mode_by_roster_grade[1] = PrefixOfRow(2)

\* the row of rows whose prefix is the most frequent of rows, the first in
\* sheet order when several prefixes are equally frequent
FirstModalRow(rows) ==
  LET n(p) == Cardinality({r \in rows : PrefixOfRow(r) = p})
      modal == {r \in rows : \A o \in rows : n(PrefixOfRow(o)) <= n(PrefixOfRow(r))}
  IN  CHOOSE r \in modal : \A q \in modal : r <= q

\* C25 as stated: the mode is taken among the prefixes of all the rows of
\* grade g, ties going to the prefix met first.
C25_ModeOfGradeRows ==
  Scanned =>
    /\ DOMAIN roster_info.prefix_mode_by_roster_grade
         = {g \in ParsableGrades : ParsablePrefixRows(g) # {}}
    /\ \A g \in ParsableGrades :
         ParsablePrefixRows(g) # {} =>
           /\ g \in DOMAIN roster_info.prefix_mode_by_roster_grade
           /\ roster_info.prefix_mode_by_roster_grade[g]
                = PrefixOfRow(FirstModalRow(ParsablePrefixRows(g)))

\* C25: prefix_mode_by_roster_grade[g] is a prefix of maximal frequency
\* among the identifier prefixes of the counted rows of grade g (class
\* parses, name not empty after normalising), the one met first in row
\* order when several tie; a grade without such a prefix has no entry.
C25_ModeOfCountedRows ==
  Scanned =>
    /\ DOMAIN roster_info.prefix_mode_by_roster_grade
         = {g \in ParsableGrades : PrefixRows(g) # {}}
    /\ \A g \in DOMAIN roster_info.prefix_mode_by_roster_grade :
         roster_info.prefix_mode_by_roster_grade[g]
           = PrefixOfRow(FirstModalRow(PrefixRows(g)))

\* two grade 1 prefixes tie and the smaller one, met first, is the mode,
\* while grade 2 has a mode of its own
C25_Witness ==
  /\ Scanned
  /\ Len(roster) = 3
  /\ PrefixRows(1) = {1, 2}
  /\ PrefixRows(2) = {3}
  /\ PrefixOfRow(1) < PrefixOfRow(2)
  /\ roster_info.prefix_mode_by_roster_grade[1] = PrefixOfRow(1)
  /\ roster_info.prefix_mode_by_roster_grade[2] = PrefixOfRow(3)

\* ------------------------------------------------- stripping in the retry
EndsInLatin(key) == key # <<>> /\ EN_RE(key[Len(key)])

\* key is base followed by a run of Latin letters
MarkedFormOf(key, base) ==
  /\ Len(key) > Len(base)
  /\ SubSeq(key, 1, Len(base)) = base
  /\ \A i \in (Len(base) + 1)..Len(key) : EN_RE(key[i])

\* C26: stripping is applied to the roster-side name key only and only
\* after a non-Latin base of at least 3 characters: a candidate resolved to
\* a roster row with another name key has a key that does not end in Latin
\* letters and is at least 3 characters long, and the row's key is that key
\* followed by Latin letters.
C26_StrippingRosterSideOnly ==
  WithdrawBuilt =>
    LET facts == RowFacts(roster) IN
    \A c \in 1..Len(withdraw_rows) :
       LET key == normalize_name_key(withdraw_rows[c].name) IN
       IsDone(withdraw_outcome[c]) =>
         \A k \in ResolvedRows(facts, withdraw_outcome[c]) :
            facts[k].key # key =>
              /\ ~EndsInLatin(key)
              /\ Len(key) >= 3
              /\ MarkedFormOf(facts[k].key, key)

\* ------------------------------------------- where a done identifier is from
\* C27: every done record of build_withdraw_outputs carries the identifier
\* of a roster row whose name key is the candidate's, as it is or once the
\* trailing Latin letters are stripped, and which has the candidate's class
\* label in its current-class or previous-class cell or is indexed at the
\* candidate's grade or the grade after it.
C27_DoneIdFromMatchingRow ==
  WithdrawBuilt =>
    LET facts == RowFacts(roster) IN
    \A c \in 1..Len(withdraw_rows) :
       LET w == withdraw_rows[c]
           key == normalize_name_key(w.name)
       IN  IsDone(withdraw_outcome[c]) =>
             \E k \in 1..Len(facts) :
                /\ facts[k].id = withdraw_outcome[c].rec.id
                /\ facts[k].key # <<>>
                /\ \/ facts[k].key = key
                   \/ _strip_name_suffix(facts[k].key) = _strip_name_suffix(key)
                /\ \/ facts[k].now = w.class
                   \/ facts[k].prev = w.class
                   \/ facts[k].graded /\ facts[k].grade \in {w.grade, w.grade + 1}

\* two candidates done, one through a row of the grade after its own and
\* one through a row carrying a marker after the name
C27_Witness ==
  /\ WithdrawBuilt
  /\ Len(withdraw_rows) = 2
  /\ IsDone(withdraw_outcome[1])
  /\ IsDone(withdraw_outcome[2])
  /\ LET facts == RowFacts(roster)
     IN  /\ \A k \in ResolvedRows(facts, withdraw_outcome[1]) :
              facts[k].grade = withdraw_rows[1].grade + 1
         /\ \A k \in ResolvedRows(facts, withdraw_outcome[2]) :
              facts[k].key # normalize_name_key(withdraw_rows[2].name)

\* C28: normalize_name is idempotent and agrees with normalize_name_key: the
\* display name of a display name is that display name, its key is the key
\* of the raw name, and a roster row holding the display name is counted
\* under the display name a new candidate with the same raw name carries.
C28_NormalizeNameIdempotent ==
  Returned =>
    /\ ret.display_again = ret.display
    /\ ret.key_again = ret.key
    /\ ret.display # <<>> =>
         ScanRows(<<Row(Class21, NoClass, ret.display, <<>>)>>)[1].nm = ret.display

\* C29: the result of build_withdraw_outputs does not depend on the
\* roster-time hint: on the same roster, candidates and dates the done and
\* hold lists of a call with any roster_info (this_year, last_year, unknown
\* or None) are those of the call with any other, and a candidate found by
\* the fallback is found among the rows of its grade or of its grade + 1.
C29_HintIndependent ==
  pc = "hint_compared" =>
    /\ ret.done = withdraw_done_rows
    /\ ret.hold = withdraw_hold_rows
    /\ LET facts == RowFacts(roster) IN
       \A c \in 1..Len(withdraw_rows) :
          LET w == withdraw_rows[c]
          IN  (IsDone(ret.outcome[c])
               /\ ExactRows(facts, w, normalize_name_key(w.name)) = {}) =>
                \E k \in ResolvedRows(facts, ret.outcome[c]) :
                   facts[k].graded /\ facts[k].grade \in {w.grade, w.grade + 1}

\* the two calls were given different hints, one of them last_year; a
\* candidate is held and another is done through the fallback
C29_Witness ==
  /\ pc = "hint_compared"
  /\ arg # roster_info
  /\ "last_year" \in {RosterTimeHint(arg), RosterTimeHint(roster_info)}
  /\ withdraw_hold_rows # <<>>
  /\ \E c \in 1..Len(withdraw_rows) :
       /\ IsDone(ret.outcome[c])
       /\ ExactRows(RowFacts(roster), withdraw_rows[c],
                    normalize_name_key(withdraw_rows[c].name)) = {}

\* C30: in every run of run_pipeline, execute_pipeline is reached only after
\* scan_pipeline returned ok = True and can_execute = True, the transfer and
\* the withdrawal step run only with the scan's roster_info, every result
\* with ok = False has no outputs and its five counters at 0, and every
\* result with ok = True lists exactly the register path and the notice path.
InExecutePipeline == pc \in {"scanned", "transfer_done", "withdraw_done"}

C30_RunPipelineOrder ==
  /\ InExecutePipeline => (scan # NoScan /\ scan.ok /\ scan.can_execute)
  /\ pc \in {"transfer_done", "withdraw_done"} => roster_info # NoRosterInfo
  /\ pc = "finished" =>
       IF result.ok
       THEN /\ result.outputs = <<"out_register_path", "out_notice_path">>
            /\ scan # NoScan /\ scan.ok /\ scan.can_execute
       ELSE /\ result.outputs = <<>>
            /\ result.transfer_in_done = 0 /\ result.transfer_in_hold = 0
            /\ result.transfer_out_done = 0 /\ result.transfer_out_hold = 0
            /\ result.transfer_out_auto_skip = 0

\* a run that failed after its transfer step had assigned an identifier
C30_Witness ==
  /\ pc = "finished"
  /\ ~result.ok
  /\ scan # NoScan /\ scan.ok /\ scan.can_execute
  /\ transfer_done_rows # <<>>


====
